---- MODULE Spec2Model ----
(***************************************************************************)
(* A model of the protection and fault-handling core of the kernel:        *)
(* frame allocators (main.rs, paging.rs), the page-table mapper            *)
(* (paging.rs), the legacy PIC programming and the IDT (interrupts.rs),    *)
(* the descriptor tables (gdt.rs), the exception handlers (exceptions.rs)  *)
(* and the start-up sequence (main.rs).                                    *)
(*                                                                         *)
(* Machine words (u8, u16, u32, u64, usize) are modelled as the set of     *)
(* their one-bits, a subset of 0..63: the bitwise operators of the source  *)
(* become set operators, and additions and comparisons are computed on     *)
(* the bits, so that no width is lost.                                     *)
(***************************************************************************)
EXTENDS Integers, Sequences, FiniteSets, TLC

(***************************************************************************)
(* Machine words                                                           *)
(***************************************************************************)
WordBits == 64

BitIdx == 0 .. (WordBits - 1)

\* The word of a small natural number (below 2^31).
W(n) == {b \in 0..30 : (n \div (2^b)) % 2 = 1}

RECURSIVE SumBits(_)
SumBits(w) == IF w = {} THEN 0
              ELSE LET b == CHOOSE x \in w : TRUE IN (2^b) + SumBits(w \ {b})

\* The natural number of a word whose bits are all below 31.
N(w) == SumBits(w)

BitAnd(a, b) == a \cap b

BitOr(a, b) == a \cup b

BitNot(a) == BitIdx \ a

Shr(a, k) == {b - k : b \in {x \in a : x >= k}}

Shl(a, k) == {b + k : b \in {x \in a : x + k < WordBits}}

\* Truncating casts: `x as u16`, `x as u32`, `x as u8`.
AsU8(a) == a \cap (0..7)

AsU16(a) == a \cap (0..15)

AsU32(a) == a \cap (0..31)

RECURSIVE AddFrom(_, _, _, _)
AddFrom(a, b, i, carry) ==
    IF i >= WordBits THEN {}
    ELSE LET s == (IF i \in a THEN 1 ELSE 0) + (IF i \in b THEN 1 ELSE 0) + carry
         IN  (IF s % 2 = 1 THEN {i} ELSE {}) \cup AddFrom(a, b, i + 1, s \div 2)

\* u64 addition (wrapping at 64 bits).
Add(a, b) == AddFrom(a, b, 0, 0)

MaxBit(s) == CHOOSE x \in s : \A y \in s : y <= x

\* a < b on unsigned words.
Lt(a, b) == a # b /\ MaxBit((a \ b) \cup (b \ a)) \in b

Ge(a, b) == ~Lt(a, b)

\* Option<T>: None is the empty tuple, Some(x) the one-element tuple.
None == <<>>

Some(x) == <<x>>

IsSome(o) == o # None

Unwrap(o) == o[1]

VARIABLES
    alloc,      \* the frame allocator (BootInfoFrameAllocator or BumpFrameAllocator)
    returned,   \* history: what each allocate_frame call returned, in order
    mem,        \* physical memory, as 8-byte words: <<frame, slot>> -> word (absent: 0)
    mapper,     \* the Mapper: pml4_phys, phys_offset
    panicked,   \* a panic was raised: the panic handler loops forever
    debug_assertions,   \* the build profile: debug_assert! is compiled in
    op,         \* history: the last mapper call and its arguments
    pic,        \* the two 8259 controllers: master, slave
    io,         \* history: the port I/O of the last call made outside a handler
    picop,      \* history: the last operation on the controllers on their own
    remapped,   \* history: remap_pic has run
    cpu,        \* registers: cs, tr, gdtr, idtr, cr2, the interrupt flag; halted, reset
    GDT,        \* the descriptor table of gdt.rs
    TSS,        \* the task state segment of gdt.rs
    IDT,        \* the interrupt descriptor table of interrupts.rs
    DF_STACK,   \* the address of the double-fault stack
    main,       \* the main context: its statement, the locals of gdt::init
    hstack,     \* the handlers in execution, innermost last
    TRIGGER_DF_ON_PF,   \* the flag of the re-fault hook
    console,    \* what println! wrote, as reports
    serial,     \* what serial::write_str wrote, as reports
    time,       \* HZ and TICKS of time.rs
    QUEUE,      \* the scancode queue of keyboard.rs
    kbd,        \* the keyboard controller: the byte at port 0x60
    fired,      \* history: how often each event of the environment happened
    popped,     \* history: the scancodes Shell::run took from the queue
    boot_info,  \* the BootInfo handed to kernel_main
    WRITER,     \* the VGA Writer of vga_buffer.rs: its cursor
    history     \* the InputHistory of the shell

allocVars == <<alloc, returned>>

mapVars == <<mem, mapper, panicked, debug_assertions, op>>

picVars == <<pic, io, picop, remapped>>

cpuVars == <<cpu, GDT, TSS, IDT, DF_STACK, main, hstack, TRIGGER_DF_ON_PF, console,
             serial, time, QUEUE, kbd, fired, popped, boot_info, WRITER, history>>

vars == <<allocVars, mapVars, picVars, cpuVars>>

(***************************************************************************)
(* Frame allocators: BootInfoFrameAllocator (main.rs) and                  *)
(* BumpFrameAllocator (paging.rs)                                          *)
(***************************************************************************)
FRAME_SIZE == 4096

\* FRAME_SIZE, FRAME_SIZE - 1 (0xFFF) and !0xFFF as words.
FrameSizeWord == W(FRAME_SIZE)

OffsetMask == W(FRAME_SIZE - 1)

FrameMask == BitNot(OffsetMask)

\* Bounds of the allocator inputs.
MaxFrameNo == 3

MaxRegions == 2

MaxExtraCalls == 2

\* paging.rs: (addr + FRAME_SIZE - 1) & !(FRAME_SIZE - 1)
align_up(addr) == BitAnd(Add(addr, OffsetMask), FrameMask)

\* main.rs: let mask = FRAME_SIZE - 1; (addr + mask) & !mask
main_align_up(addr) ==
    LET mask == OffsetMask IN BitAnd(Add(addr, mask), BitNot(mask))

\* A region of the boot-supplied memory map: a frame range and its type.
\* The boot loader's FrameRange holds frame numbers; start_addr() and
\* end_addr() are the frame number times the page size.
Region(s, e, usable) ==
    [start_frame_number |-> s, end_frame_number |-> e, usable |-> usable]

start_addr(region) == W(region.start_frame_number * FRAME_SIZE)

end_addr(region) == W(region.end_frame_number * FRAME_SIZE)

is_empty(region) == region.start_frame_number = region.end_frame_number

Regions ==
    {Region(s, e, u) : s \in 0..MaxFrameNo, e \in 0..MaxFrameNo, u \in BOOLEAN}

\* An ordered memory map: every region is a range (start <= end) and starts
\* at or after the end of the one before it.
IsOrderedMap(m) ==
    /\ \A i \in 1..Len(m) : m[i].start_frame_number <= m[i].end_frame_number
    /\ \A i \in 1..(Len(m) - 1) :
          m[i].end_frame_number <= m[i + 1].start_frame_number

RECURSIVE SeqsUpTo(_, _)
SeqsUpTo(S, n) ==
    IF n = 0 THEN {<<>>}
    ELSE LET shorter == SeqsUpTo(S, n - 1)
         IN  shorter \cup {Append(q, x) : q \in {p \in shorter : Len(p) = n - 1}, x \in S}

MemoryMaps == {m \in SeqsUpTo(Regions, MaxRegions) : IsOrderedMap(m)}

\* next_frame_address: region_type != Usable || range.is_empty()
region_skipped_ignores_type(region) == is_empty(region)

region_skipped(region) == ~region.usable \/ is_empty(region)

\* BootInfoFrameAllocator::new
BootInfoFrameAllocator_new(memory_map) ==
    [kind |-> "BootInfo", memory_map |-> memory_map, region_index |-> 0,
     next_addr |-> {}]

\* BootInfoFrameAllocator::next_frame_address: the while loop, one region
\* per iteration; the result is the allocator after the call and the
\* frame (or None).
RECURSIVE next_frame_address(_)
next_frame_address(a) ==
    IF a.region_index < Len(a.memory_map)
    THEN LET region == a.memory_map[a.region_index + 1]
         IN  IF region_skipped(region)
             THEN next_frame_address(
                      [a EXCEPT !.region_index = @ + 1, !.next_addr = {}])
             ELSE LET region_start == main_align_up(start_addr(region))
                      region_end == end_addr(region)
                      next_addr == IF Lt(a.next_addr, region_start)
                                   THEN region_start ELSE a.next_addr
                  IN  IF Lt(next_addr, region_end)
                      THEN [alloc |-> [a EXCEPT !.next_addr =
                                                    Add(next_addr, FrameSizeWord)],
                            frame |-> Some(next_addr)]
                      ELSE next_frame_address(
                               [a EXCEPT !.region_index = @ + 1, !.next_addr = {}])
    ELSE [alloc |-> a, frame |-> None]

\* BumpFrameAllocator::new
BumpFrameAllocator_new(start, end) ==
    [kind |-> "Bump", next |-> align_up(start), end |-> end]

bump_allocate_frame_no_advance(a) ==
    IF Ge(a.next, a.end)
    THEN [alloc |-> a, frame |-> None]
    ELSE [alloc |-> a, frame |-> Some(a.next)]

\* BumpFrameAllocator::allocate_frame
bump_allocate_frame(a) ==
    IF Ge(a.next, a.end)
    THEN [alloc |-> a, frame |-> None]
    ELSE [alloc |-> [a EXCEPT !.next = align_up(Add(a.next, FrameSizeWord))],
          frame |-> Some(a.next)]

\* FrameAllocator::allocate_frame, dispatched on the implementing type.
allocate_frame(a) ==
    IF a.kind = "BootInfo" THEN next_frame_address(a) ELSE bump_allocate_frame(a)

(***************************************************************************)
(* Page tables and the Mapper (paging.rs)                                  *)
(***************************************************************************)
ENTRIES_PER_TABLE == 512

PRESENT == {0}

WRITABLE == {1}

USER == {2}

HUGE_PAGE == {7}

NO_EXECUTE == {63}

\* 0x000F_FFFF_FFFF_F000
ADDRESS_MASK == 12..51

\* PageTableEntry::set: debug_assert_eq!(frame & 0xFFF, 0) fails
set_assert_fails(frame) == debug_assertions /\ BitAnd(frame, OffsetMask) # {}

PageTableEntry_set_no_flag_mask(frame, flags) ==
    BitOr(BitAnd(frame, ADDRESS_MASK), flags)

PageTableEntry_set_flags_low12(frame, flags) ==
    BitOr(BitAnd(frame, ADDRESS_MASK), BitAnd(flags, OffsetMask))

\* PageTableEntry::set: the stored word
PageTableEntry_set(frame, flags) ==
    BitOr(BitAnd(frame, ADDRESS_MASK), BitAnd(flags, BitNot(ADDRESS_MASK)))

is_unused_wrong_bit(entry) == BitAnd(entry, HUGE_PAGE) = {}

\* PageTableEntry::is_unused
is_unused(entry) == BitAnd(entry, PRESENT) = {}

\* PageTableEntry::addr
PageTableEntry_addr(entry) == BitAnd(entry, ADDRESS_MASK)

\* 0x1FF
IndexMask == W(ENTRIES_PER_TABLE - 1)

pml4_index(addr) == N(BitAnd(Shr(addr, 39), IndexMask))

pdpt_index(addr) == N(BitAnd(Shr(addr, 30), IndexMask))


pd_index_shift_20(addr) == N(BitAnd(Shr(addr, 20), IndexMask))

pd_index(addr) == N(BitAnd(Shr(addr, 21), IndexMask))

pt_index(addr) == N(BitAnd(Shr(addr, 12), IndexMask))

\* Mapper::table_mut: the table at physical address phys, reached through
\* the pointer phys + phys_offset into the boot loader's mirror of physical
\* memory; memory is addressed here by the physical address it aliases.
table_mut(phys) == phys

\* PageTable::entry_mut(index), read: the entry's word.
ReadEntry(m, table, index) ==
    IF <<table_mut(table), index>> \in DOMAIN m
    THEN m[<<table_mut(table), index>>] ELSE {}

\* PageTable::entry_mut(index), written.
WriteEntry(m, table, index, entry) ==
    LET k == <<table_mut(table), index>>
    IN  IF entry = {}
        THEN [x \in DOMAIN m \ {k} |-> m[x]]
        ELSE [x \in DOMAIN m \cup {k} |-> IF x = k THEN entry ELSE m[x]]

PageTable_zero_nothing(m, table) == m

\* PageTable::zero: clear every entry of the table.
PageTable_zero(m, table) ==
    [x \in {k \in DOMAIN m : k[1] # table_mut(table)} |-> m[x]]

\* flags::PRESENT | flags::WRITABLE
TableFlags == BitOr(PRESENT, WRITABLE)

ensure_next_table_always_allocates(st, index) ==
    IF st.panicked THEN st
    ELSE LET r == allocate_frame(st.alloc)
         IN  IF r.frame = None
             THEN [st EXCEPT !.alloc = r.alloc,
                             !.returned = Append(@, None),
                             !.panicked = TRUE]
             ELSE LET frame == Unwrap(r.frame)
                  IN  [st EXCEPT
                          !.mem = WriteEntry(PageTable_zero(st.mem, frame),
                                             st.table, index,
                                             PageTableEntry_set(frame, TableFlags)),
                          !.alloc = r.alloc,
                          !.returned = Append(@, r.frame),
                          !.table = frame]

ensure_next_table_ignores_none(st, index) ==
    IF st.panicked THEN st
    ELSE LET entry == ReadEntry(st.mem, st.table, index)
         IN  IF is_unused(entry)
             THEN LET r == allocate_frame(st.alloc)
                      frame == IF r.frame = None THEN {} ELSE Unwrap(r.frame)
                  IN  [st EXCEPT
                          !.mem = WriteEntry(PageTable_zero(st.mem, frame),
                                             st.table, index,
                                             PageTableEntry_set(frame, TableFlags)),
                          !.alloc = r.alloc,
                          !.returned = Append(@, r.frame),
                          !.table = frame]
             ELSE [st EXCEPT !.table = PageTableEntry_addr(entry)]


ensure_next_table_links_parent(st, index) ==
    IF st.panicked THEN st
    ELSE LET entry == ReadEntry(st.mem, st.table, index)
         IN  IF is_unused(entry)
             THEN LET r == allocate_frame(st.alloc)
                  IN  IF r.frame = None
                      THEN [st EXCEPT !.alloc = r.alloc,
                                      !.returned = Append(@, None),
                                      !.panicked = TRUE]
                      ELSE LET frame == Unwrap(r.frame)
                           IN  [st EXCEPT
                                   !.mem = WriteEntry(PageTable_zero(st.mem, frame),
                                              st.table, index,
                                              PageTableEntry_set(st.table,
                                                  TableFlags)),
                                   !.alloc = r.alloc,
                                   !.returned = Append(@, r.frame),
                                   !.table = frame]
             ELSE [st EXCEPT !.table = PageTableEntry_addr(entry)]

\* Mapper::ensure_next_table on the walk state st: st.table is the table
\* being walked, and becomes the next table; st.writes collects the memory
\* after each of the call's writes, next.zero() first and entry.set second.
ensure_next_table(st, index) ==
    IF st.panicked THEN st
    ELSE LET entry == ReadEntry(st.mem, st.table, index)
         IN  IF is_unused(entry)
             THEN LET r == allocate_frame(st.alloc)
                  IN  IF r.frame = None
                      THEN \* .expect("no free frames for paging structures")
                           [st EXCEPT !.alloc = r.alloc,
                                      !.returned = Append(@, None),
                                      !.panicked = TRUE]
                      ELSE LET frame == Unwrap(r.frame)
                               zeroed == PageTable_zero(st.mem, frame)
                               linked == WriteEntry(zeroed, st.table, index,
                                             PageTableEntry_set(frame, TableFlags))
                           IN  IF set_assert_fails(frame)
                               THEN [st EXCEPT !.mem = zeroed,
                                               !.writes = Append(@, zeroed),
                                               !.alloc = r.alloc,
                                               !.returned = Append(@, r.frame),
                                               !.panicked = TRUE]
                               ELSE [st EXCEPT
                                       !.mem = linked,
                                       !.writes = @ \o <<zeroed, linked>>,
                                       !.alloc = r.alloc,
                                       !.returned = Append(@, r.frame),
                                       !.table = frame]
             ELSE [st EXCEPT !.table = PageTableEntry_addr(entry)]

\* The leaf step of map_page, overwriting a present entry.
map_leaf_overwrite(st, virt, phys, flags) ==
    IF st.panicked THEN st
    ELSE IF set_assert_fails(phys)
         THEN [st EXCEPT !.panicked = TRUE]
         ELSE [st EXCEPT !.mem = WriteEntry(@, st.table, pt_index(virt),
                                            PageTableEntry_set(phys, flags))]

\* The leaf step of map_page: install the mapping unless the entry is present.
map_leaf(st, virt, phys, flags) ==
    IF st.panicked THEN st
    ELSE LET entry == ReadEntry(st.mem, st.table, pt_index(virt))
         IN  IF is_unused(entry)
             THEN IF set_assert_fails(phys)
                  THEN [st EXCEPT !.panicked = TRUE]
                  ELSE LET stored == WriteEntry(st.mem, st.table, pt_index(virt),
                                                PageTableEntry_set(phys, flags))
                       IN  [st EXCEPT !.mem = stored,
                                      !.writes = Append(@, stored)]
             ELSE st

\* Mapper::map_page on the state st = [mem, alloc, returned, panicked, table]
map_page(st, pml4_phys, virt, phys, flags) ==
    LET s0 == [st EXCEPT !.table = pml4_phys]
        s1 == ensure_next_table(s0, pml4_index(virt))
        s2 == ensure_next_table(s1, pdpt_index(virt))
        s3 == ensure_next_table(s2, pd_index(virt))
    IN  map_leaf(s3, virt, phys, flags)

\* The loop of identity_map_range: while addr < end { map_page; addr += FRAME_SIZE }
RECURSIVE identity_map_loop(_, _, _, _, _)
identity_map_loop(st, pml4_phys, addr, end, flags) ==
    IF st.panicked \/ ~Lt(addr, end) THEN st
    ELSE identity_map_loop(map_page(st, pml4_phys, addr, addr, flags),
                           pml4_phys, Add(addr, FrameSizeWord), end, flags)


identity_map_range_end_rounded_down(st, pml4_phys, start, end, flags) ==
    identity_map_loop(st, pml4_phys, BitAnd(start, FrameMask),
                      BitAnd(end, FrameMask), flags)

\* Mapper::identity_map_range
identity_map_range(st, pml4_phys, start, end, flags) ==
    identity_map_loop(st, pml4_phys, BitAnd(start, FrameMask),
                      align_up(end), flags)

\* Mapper::new: zero the root table.
Mapper_new(m, pml4_phys, phys_offset) ==
    [mem |-> PageTable_zero(m, pml4_phys),
     mapper |-> [pml4_phys |-> pml4_phys, phys_offset |-> phys_offset]]

\* Mapper::from_existing: keep the tables as they are.
Mapper_from_existing(m, pml4_phys, phys_offset) ==
    [mem |-> m,
     mapper |-> [pml4_phys |-> pml4_phys, phys_offset |-> phys_offset]]

(***************************************************************************)
(* Port I/O and the two 8259 interrupt controllers (interrupts.rs)         *)
(***************************************************************************)
\* The ports of the source: PIC command/data (master, slave), the POST port
\* used for the I/O delay, and the keyboard data port.
PIC1_COMMAND == 32

PIC1_DATA == 33

PIC2_COMMAND == 160

PIC2_DATA == 161

DELAY_PORT == 128

KBD_DATA == 96

\* The end-of-interrupt command byte, 0x20.
EOI == W(32)

\* An `out dx, al`: one entry of the I/O log.
Out(port, value) == <<"outb", port, value>>

\* interrupts::io_wait
io_wait == <<Out(DELAY_PORT, W(0))>>

send_eoi_threshold_8(irq) ==
    (IF Ge(irq, W(8)) THEN <<Out(PIC2_COMMAND, EOI)>> ELSE <<>>)
        \o <<Out(PIC1_COMMAND, EOI)>>

\* interrupts::send_eoi: the port writes it makes, in order.
send_eoi(irq) ==
    (IF Ge(irq, W(40)) THEN <<Out(PIC2_COMMAND, EOI)>> ELSE <<>>)
        \o <<Out(PIC1_COMMAND, EOI)>>

remap_pic_no_delay ==
    <<Out(PIC1_COMMAND, W(17)), Out(PIC2_COMMAND, W(17)),
      Out(PIC1_DATA, W(32)), Out(PIC2_DATA, W(40)),
      Out(PIC1_DATA, W(4)), Out(PIC2_DATA, W(2)),
      Out(PIC1_DATA, W(1)), Out(PIC2_DATA, W(1))>>
        \o io_wait \o <<Out(PIC1_DATA, W(0)), Out(PIC2_DATA, W(0))>>

\* interrupts::remap_pic: the port writes it makes, in order.
remap_pic ==
    <<Out(PIC1_COMMAND, W(17))>> \o io_wait
        \o <<Out(PIC2_COMMAND, W(17))>> \o io_wait
        \o <<Out(PIC1_DATA, W(32))>> \o io_wait
        \o <<Out(PIC2_DATA, W(40))>> \o io_wait
        \o <<Out(PIC1_DATA, W(4))>> \o io_wait
        \o <<Out(PIC2_DATA, W(2))>> \o io_wait
        \o <<Out(PIC1_DATA, W(1))>> \o io_wait
        \o <<Out(PIC2_DATA, W(1))>> \o io_wait
        \o <<Out(PIC1_DATA, W(0)), Out(PIC2_DATA, W(0))>>

\* One 8259: step is 0 in operation and 2, 3, 4 while it waits for ICW2,
\* ICW3, ICW4; offset is the vector base, imr the mask register, irr the
\* requests, isr the lines in service.
Chip(offset, imr) ==
    [step |-> 0, ic4 |-> FALSE, offset |-> offset, imr |-> imr,
     irr |-> {}, isr |-> {}, icw3 |-> {}, icw4 |-> {}]

MinBit(s) == CHOOSE x \in s : \A y \in s : x <= y

\* A write to a command port: ICW1 (bit 4 set) starts the initialization
\* and clears the mask; 0x20 is the non-specific end-of-interrupt, which
\* clears the in-service line of the highest priority.
PicCommand(chip, value) ==
    IF 4 \in value
    THEN [chip EXCEPT !.step = 2, !.ic4 = (0 \in value), !.imr = {},
                      !.irr = {}, !.isr = {}]
    ELSE IF value = EOI /\ chip.isr # {}
         THEN [chip EXCEPT !.isr = @ \ {MinBit(@)}]
         ELSE chip

\* A write to a data port: ICW2 (the vector base), ICW3, ICW4 during the
\* initialization, and the mask register (OCW1) otherwise.
PicData(chip, value) ==
    CASE chip.step = 2 -> [chip EXCEPT !.offset = BitAnd(value, 3..7), !.step = 3]
      [] chip.step = 3 -> [chip EXCEPT !.icw3 = value,
                                       !.step = IF chip.ic4 THEN 4 ELSE 0]
      [] chip.step = 4 -> [chip EXCEPT !.icw4 = value, !.step = 0]
      [] OTHER -> [chip EXCEPT !.imr = value]

\* interrupts::outb on the controllers p = [master, slave].
outb(p, port, value) ==
    CASE port = PIC1_COMMAND -> [p EXCEPT !.master = PicCommand(@, value)]
      [] port = PIC1_DATA -> [p EXCEPT !.master = PicData(@, value)]
      [] port = PIC2_COMMAND -> [p EXCEPT !.slave = PicCommand(@, value)]
      [] port = PIC2_DATA -> [p EXCEPT !.slave = PicData(@, value)]
      [] OTHER -> p

RECURSIVE ApplyIo(_, _)
ApplyIo(p, log) ==
    IF log = <<>> THEN p
    ELSE ApplyIo(IF Head(log)[1] = "outb"
                 THEN outb(p, Head(log)[2], Head(log)[3]) ELSE p,
                 Tail(log))

\* The lines a controller requests service for: requested, unmasked, and of
\* a higher priority than every line in service.
Requests(chip) ==
    IF chip.step # 0 THEN {}
    ELSE {n \in chip.irr : n \notin chip.imr /\ \A k \in chip.isr : n < k}

\* The slave's output is wired to line 2 of the master.
CASCADE_LINE == 2

MasterRequests(p) ==
    Requests([p.master EXCEPT !.irr =
                  @ \cup (IF Requests(p.slave) # {} THEN {CASCADE_LINE} ELSE {})])

\* The interrupt acknowledge cycle: the line served, its vector, and the
\* controllers afterwards.
Acknowledge(p) ==
    LET m == MinBit(MasterRequests(p))
    IN  IF m = CASCADE_LINE /\ Requests(p.slave) # {}
        THEN LET s == MinBit(Requests(p.slave))
             IN  [irq |-> 8 + s,
                  vector |-> BitOr(p.slave.offset, W(s)),
                  pic |-> [master |-> [p.master EXCEPT !.isr = @ \cup {m}],
                           slave |-> [p.slave EXCEPT !.isr = @ \cup {s},
                                                     !.irr = @ \ {s}]]]
        ELSE [irq |-> m,
              vector |-> BitOr(p.master.offset, W(m)),
              pic |-> [p EXCEPT !.master.isr = @ \cup {m},
                                !.master.irr = @ \ {m}]]

\* A device raises IRQ line n (0..15).
RaiseLine(p, n) ==
    IF n < 8 THEN [p EXCEPT !.master.irr = @ \cup {n}]
    ELSE [p EXCEPT !.slave.irr = @ \cup {n - 8}]

\* The controllers as the firmware leaves them: vectors 0x08.. and 0x70..,
\* timer, keyboard and cascade unmasked.
BootPic == [master |-> Chip(W(8), W(248)), slave |-> Chip(W(112), W(255))]

(***************************************************************************)
(* Descriptor tables: the GDT and the TSS (gdt.rs)                         *)
(***************************************************************************)
DOUBLE_FAULT_IST_INDEX == 0

DOUBLE_FAULT_IST_INDEX_FOR_IDT == DOUBLE_FAULT_IST_INDEX + 1

DF_STACK_SIZE == 4096 * 5

\* The number of 8-byte slots of a GlobalDescriptorTable.
GDT_MAX == 8

\* TaskStateSegment::new(): seven interrupt-stack-table slots, all zero.
TaskStateSegment_new == [interrupt_stack_table |-> [i \in 0..6 |-> {}]]

\* GlobalDescriptorTable::new(): the null descriptor only.
GlobalDescriptorTable_new == <<[kind |-> "null"]>>

\* Descriptor::kernel_code_segment(): one slot.
Descriptor_kernel_code_segment == <<[kind |-> "kernel_code"]>>

\* Descriptor::tss_segment(&TSS): a system descriptor of two slots.
Descriptor_tss_segment == <<[kind |-> "tss"], [kind |-> "tss_high"]>>


gdt_append_selector_of_last(table, descriptor) ==
    [table |-> table \o descriptor,
     selector |-> W((Len(table) - 1) * 8),
     full |-> Len(table) + Len(descriptor) > GDT_MAX]

\* GlobalDescriptorTable::append: the table afterwards, the selector of the
\* new descriptor (index * 8, privilege level 0), and whether the table was
\* too full, in which case append panics.
gdt_append(table, descriptor) ==
    [table |-> table \o descriptor,
     selector |-> W(Len(table) * 8),
     full |-> Len(table) + Len(descriptor) > GDT_MAX]


stack_end_is_start(stack_start) == stack_start

\* stack_end of gdt::init: stack_start + DF_STACK_SIZE.
stack_end(stack_start) == Add(stack_start, W(DF_STACK_SIZE))

\* The statements of gdt::init, in order.
gdt_init ==
    <<"gdt.ist", "gdt.append_code", "gdt.append_tss", "gdt.load",
      "gdt.set_cs", "gdt.load_tss">>

(***************************************************************************)
(* The IDT and its gates (interrupts.rs)                                   *)
(***************************************************************************)
IDT_LEN == 256

InterruptIndex_Breakpoint == 3

InterruptIndex_Timer == 32

InterruptIndex_Keyboard == 33

\* The vectors of the processor's own exceptions used here.
VEC_DOUBLE_FAULT == 8

VEC_GENERAL_PROTECTION == 13

VEC_PAGE_FAULT == 14

IdtEntry_missing ==
    [offset_low |-> {}, selector |-> {}, options |-> {},
     offset_mid |-> {}, offset_high |-> {}, reserved |-> {}]

set_handler_high_as_u16(entry, handler) ==
    [entry EXCEPT !.offset_low = AsU16(handler),
                  !.offset_mid = AsU16(Shr(handler, 16)),
                  !.offset_high = AsU16(Shr(handler, 32))]

\* IdtEntry::set_handler
set_handler(entry, handler) ==
    [entry EXCEPT !.offset_low = AsU16(handler),
                  !.offset_mid = AsU16(Shr(handler, 16)),
                  !.offset_high = AsU32(Shr(handler, 32))]


IdtEntry_new_trap_gate(handler, cs) ==
    [set_handler(IdtEntry_missing, handler) EXCEPT
        !.selector = AsU16(cs),
        !.options = W(36608)]


IdtEntry_new_selector_unset(handler, cs) ==
    [set_handler(IdtEntry_missing, handler) EXCEPT
        !.options = W(36352)]

\* IdtEntry::new, with cs the value CS::get_reg() returns.
IdtEntry_new(handler, cs) ==
    [set_handler(IdtEntry_missing, handler) EXCEPT
        !.selector = AsU16(cs),
        !.options = W(36352)]


IdtEntry_new_with_ist_dropped(handler, ist, cs) ==
    LET entry == IdtEntry_new(handler, cs)
    IN  [entry EXCEPT !.options = BitAnd(@, AsU16(BitNot(W(7))))]

\* IdtEntry::new_with_ist
IdtEntry_new_with_ist(handler, ist, cs) ==
    LET entry == IdtEntry_new(handler, cs)
        i == BitAnd(AsU16(AsU8(ist)), W(7))
    IN  [entry EXCEPT !.options = BitOr(BitAnd(@, AsU16(BitNot(W(7)))), i)]

\* What the processor reads from a gate.
GateOffset(entry) ==
    BitOr(entry.offset_low,
          BitOr(Shl(entry.offset_mid, 16), Shl(entry.offset_high, 32)))

GatePresent(entry) == 15 \in entry.options

GateType(entry) == N(Shr(BitAnd(entry.options, 8..11), 8))

GateIst(entry) == N(BitAnd(entry.options, W(7)))

INTERRUPT_GATE == 14

TRAP_GATE == 15

\* The table is kept as the slots that were assigned; every other slot holds
\* IdtEntry::missing().
IdtAt(table, v) == IF v \in DOMAIN table THEN table[v] ELSE IdtEntry_missing

\* Where the linker put the static IDT: ptr::addr_of!(IDT).
IdtBase == W(2101248)

\* Where the linker put the handlers: distinct addresses with bits in all
\* three offset fields of a gate.
KernelText(k) == BitOr(Shl(W(1), 32), W(2105344 + 4096 * k))

HandlerAddr ==
    [h \in {"breakpoint_handler", "timer_interrupt_handler",
            "keyboard_interrupt_handler", "page_fault_handler",
            "gpf_handler", "double_fault_handler"} |->
        CASE h = "breakpoint_handler" -> KernelText(1)
          [] h = "timer_interrupt_handler" -> KernelText(2)
          [] h = "keyboard_interrupt_handler" -> KernelText(3)
          [] h = "page_fault_handler" -> KernelText(4)
          [] h = "gpf_handler" -> KernelText(5)
          [] h = "double_fault_handler" -> KernelText(6)]

HandlerAt(addr) == CHOOSE h \in DOMAIN HandlerAddr : HandlerAddr[h] = addr

\* The assignments to IDT slots in interrupts::init, in order.
IdtWrites ==
    [l \in {"idt.breakpoint", "idt.timer", "idt.keyboard", "idt.page_fault",
            "idt.gpf", "idt.double_fault"} |->
        CASE l = "idt.breakpoint" ->
                 [vector |-> InterruptIndex_Breakpoint,
                  handler |-> "breakpoint_handler", ist |-> None]
          [] l = "idt.timer" ->
                 [vector |-> InterruptIndex_Timer,
                  handler |-> "timer_interrupt_handler", ist |-> None]
          [] l = "idt.keyboard" ->
                 [vector |-> InterruptIndex_Keyboard,
                  handler |-> "keyboard_interrupt_handler", ist |-> None]
          [] l = "idt.page_fault" ->
                 [vector |-> VEC_PAGE_FAULT,
                  handler |-> "page_fault_handler", ist |-> None]
          [] l = "idt.gpf" ->
                 [vector |-> VEC_GENERAL_PROTECTION,
                  handler |-> "gpf_handler", ist |-> None]
          [] l = "idt.double_fault" ->
                 [vector |-> VEC_DOUBLE_FAULT,
                  handler |-> "double_fault_handler",
                  ist |-> Some(W(DOUBLE_FAULT_IST_INDEX_FOR_IDT))]]

interrupts_init_enable_first ==
    <<"idt.breakpoint", "idt.timer", "idt.keyboard", "idt.page_fault",
      "idt.gpf", "idt.double_fault", "enable", "remap_pic", "load_idt">>

\* The statements of interrupts::init, in order.
interrupts_init ==
    <<"idt.breakpoint", "idt.timer", "idt.keyboard", "idt.page_fault",
      "idt.gpf", "idt.double_fault", "remap_pic", "load_idt", "enable">>

load_idt_limit_is_size(len) == AsU16(W(len * 16))

\* load_idt: the limit of the descriptor handed to lidt.
load_idt_limit(len) == AsU16(W(len * 16 - 1))

(***************************************************************************)
(* The handlers (interrupts.rs, exceptions.rs), the scancode queue         *)
(* (keyboard.rs) and the start-up sequence (main.rs, shell.rs)             *)
(***************************************************************************)
\* The address the re-fault hook reads: 0x4000_0000_0000.
HighAddr == Shl(W(1), 46)

In(port, value) == <<"inb", port, value>>

Did(what, value) == <<what, 0, value>>

keyboard_interrupt_handler_eoi_first ==
    <<[op |-> "send_eoi", arg |-> W(InterruptIndex_Keyboard)],
      [op |-> "inb", arg |-> KBD_DATA],
      [op |-> "push_scancode", arg |-> 0]>>

\* interrupts::keyboard_interrupt_handler
keyboard_interrupt_handler ==
    <<[op |-> "inb", arg |-> KBD_DATA],
      [op |-> "push_scancode", arg |-> 0],
      [op |-> "send_eoi", arg |-> W(InterruptIndex_Keyboard)]>>

\* interrupts::timer_interrupt_handler
timer_interrupt_handler ==
    <<[op |-> "send_eoi", arg |-> W(InterruptIndex_Timer)],
      [op |-> "tick", arg |-> 0]>>

\* interrupts::breakpoint_handler
breakpoint_handler ==
    <<[op |-> "println", arg |-> "EXCEPTION: BREAKPOINT"]>>

\* exceptions::double_fault_handler
double_fault_handler ==
    <<[op |-> "println", arg |-> "EXCEPTION: DOUBLE FAULT"],
      [op |-> "serial", arg |-> "EXCEPTION: DOUBLE FAULT"],
      [op |-> "hlt_loop", arg |-> 0]>>

gpf_handler_returns ==
    <<[op |-> "println", arg |-> "EXCEPTION: GENERAL PROTECTION FAULT"],
      [op |-> "serial", arg |-> "EXCEPTION: GENERAL PROTECTION FAULT"]>>

\* exceptions::gpf_handler
gpf_handler ==
    <<[op |-> "println", arg |-> "EXCEPTION: GENERAL PROTECTION FAULT"],
      [op |-> "serial", arg |-> "EXCEPTION: GENERAL PROTECTION FAULT"],
      [op |-> "spin_loop", arg |-> 0]>>

\* exceptions::page_fault_handler
page_fault_handler ==
    <<[op |-> "read_cr2", arg |-> 0],
      [op |-> "println", arg |-> "EXCEPTION: PAGE FAULT"],
      [op |-> "serial", arg |-> "EXCEPTION: PAGE FAULT"],
      [op |-> "println", arg |-> "stack_frame"],
      [op |-> "swap_trigger", arg |-> 0],
      [op |-> "read_if_armed", arg |-> HighAddr],
      [op |-> "spin_loop", arg |-> 0]>>

Body(h) ==
    CASE h = "breakpoint_handler" -> breakpoint_handler
      [] h = "timer_interrupt_handler" -> timer_interrupt_handler
      [] h = "keyboard_interrupt_handler" -> keyboard_interrupt_handler
      [] h = "page_fault_handler" -> page_fault_handler
      [] h = "gpf_handler" -> gpf_handler
      [] h = "double_fault_handler" -> double_fault_handler

SCANCODE_QUEUE_CAPACITY == 256

\* ScancodeQueue::new(); the buffer is kept as the cells that were written,
\* every other cell holds 0.
ScancodeQueue_new == [buffer |-> <<>>, head |-> 0, tail |-> 0, len |-> 0]

ScancodeQueue_push_when_full(q, scancode) ==
    [buffer |-> (q.head :> scancode) @@ q.buffer,
     head |-> (q.head + 1) % SCANCODE_QUEUE_CAPACITY,
     tail |-> q.tail,
     len |-> q.len + 1]

\* ScancodeQueue::push
ScancodeQueue_push(q, scancode) ==
    IF q.len = SCANCODE_QUEUE_CAPACITY THEN q
    ELSE [buffer |-> (q.head :> scancode) @@ q.buffer,
          head |-> (q.head + 1) % SCANCODE_QUEUE_CAPACITY,
          tail |-> q.tail,
          len |-> q.len + 1]

\* ScancodeQueue::pop: the queue afterwards and the Option returned.
ScancodeQueue_pop(q) ==
    IF q.len = 0 THEN [queue |-> q, value |-> None]
    ELSE [queue |-> [q EXCEPT !.tail = (q.tail + 1) % SCANCODE_QUEUE_CAPACITY,
                              !.len = q.len - 1],
          value |-> Some(IF q.tail \in DOMAIN q.buffer
                         THEN q.buffer[q.tail] ELSE {})]

\* time::init_pit: the port writes it makes for a rate of hz.
init_pit(hz) ==
    LET div == 1193182 \div hz
        clamped == IF div > 65535 THEN 65535 ELSE IF div < 1 THEN 1 ELSE div
    IN  <<Out(67, W(54)), Out(64, BitAnd(W(clamped), W(255))),
          Out(64, AsU8(Shr(W(clamped), 8)))>>

COM1 == 1016

\* serial::init_unsafe_16550_default: the port writes it makes.
init_unsafe_16550_default ==
    <<Out(COM1 + 1, W(0)), Out(COM1 + 3, W(128)), Out(COM1, W(1)),
      Out(COM1 + 1, W(0)), Out(COM1 + 3, W(3)), Out(COM1 + 2, W(199)),
      Out(COM1 + 4, W(11))>>

\* main::panic, the #[panic_handler]: what it writes to the console before
\* its loop {}.  The call of panic_print::print is commented out, so it
\* writes nothing.
panic == <<>>

kernel_main_idt_first ==
    interrupts_init \o gdt_init
        \o <<"init_paging", "serial_init", "init_pit", "bootstrap",
             "shell.pop", "shell.hlt">>

\* main::kernel_main, with the loop of Shell::run at its end: the statements
\* in order.
kernel_main ==
    gdt_init \o interrupts_init
        \o <<"init_paging", "serial_init", "init_pit", "bootstrap",
             "shell.pop", "shell.hlt">>

\* The statement that follows statement l of kernel_main.
After(l) ==
    kernel_main[(CHOOSE i \in 1..Len(kernel_main) : kernel_main[i] = l) + 1]

(***************************************************************************)
(* The variables of a subsystem that a specification leaves alone          *)
(***************************************************************************)
\* The allocator's variables where no allocator exists.
AllocIdle ==
    /\ alloc = None
    /\ returned = <<>>

\* The mapper's variables where no mapper exists.
MapIdle ==
    /\ mem = <<>>
    /\ mapper = None
    /\ panicked = FALSE
    /\ debug_assertions = FALSE
    /\ op = [name |-> "none", n |-> 0]

\* The controllers' variables at boot.
PicIdle ==
    /\ pic = BootPic
    /\ io = <<>>
    /\ picop = [name |-> "none"]
    /\ remapped = FALSE

(***************************************************************************)
(* vga_buffer.rs: the Writer                                               *)
(***************************************************************************)
BUFFER_HEIGHT == 25

BUFFER_WIDTH == 80

NEWLINE == 10

\* static WRITER: row 1, column 1
Writer_new == [row |-> 1, column |-> 1]

\* Writer::set_cursor_position: the position sent to the CRT controller
cursor_position(w) == w.row * BUFFER_WIDTH + w.column

\* Writer::clear_row: the cells it blanks, columns 1 to 79 of the row
clear_row(row) == {<<row, col>> : col \in 1..(BUFFER_WIDTH - 1)}

\* Writer::new_line scrolling only from row 25 on
new_line_below_last_row(w) ==
    IF w.row < BUFFER_HEIGHT
    THEN [writer |-> [row |-> w.row + 1, column |-> 0],
          cells |-> {},
          mid |-> {[w EXCEPT !.row = @ + 1]}]
    ELSE [writer |-> [row |-> BUFFER_HEIGHT - 2, column |-> 1],
          cells |-> {},
          mid |-> {w}]

\* Writer::new_line. The result of a method is the writer after it, the
\* cells of the buffer it wrote, and the states of the writer between two
\* of its assignments (mid), which a handler that interrupts it finds.
new_line(w) ==
    IF w.row < BUFFER_HEIGHT - 1
    THEN [writer |-> [row |-> w.row + 1, column |-> 0],
          cells |-> {},
          mid |-> {[w EXCEPT !.row = @ + 1]}]
    ELSE [writer |-> [row |-> BUFFER_HEIGHT - 2, column |-> 1],
          cells |-> {<<row - 1, col>> : row \in 1..(BUFFER_HEIGHT - 1),
                                       col \in 0..(BUFFER_WIDTH - 1)}
                        \cup clear_row(BUFFER_HEIGHT - 2),
          mid |-> {w, [w EXCEPT !.row = BUFFER_HEIGHT - 2]}]

\* Writer::write_byte
Writer_write_byte(w, byte) ==
    IF byte = NEWLINE THEN new_line(w)
    ELSE LET moved == IF w.column >= BUFFER_WIDTH THEN new_line(w)
                      ELSE [writer |-> w, cells |-> {}, mid |-> {}]
             row == moved.writer.row
             col == moved.writer.column
         IN  [writer |-> [moved.writer EXCEPT !.column = @ + 1],
              cells |-> moved.cells \cup {<<row, col>>},
              mid |-> moved.mid \cup {moved.writer}]

\* Writer::backspace
Writer_backspace(w) ==
    IF w.row = 1 /\ w.column = 0
    THEN [writer |-> w, cells |-> {}, mid |-> {}]
    ELSE LET up == IF w.column = 1 /\ w.row > 1
                   THEN [row |-> w.row - 2, column |-> BUFFER_WIDTH]
                   ELSE w
             left == IF up.column > 1 THEN [up EXCEPT !.column = @ - 2] ELSE up
         IN  [writer |-> left,
              cells |-> {<<left.row, left.column>>},
              mid |-> {[w EXCEPT !.row = up.row], up, left}]

\* vga_buffer::clear_screen
clear_screen(w) ==
    [writer |-> [row |-> 1, column |-> 1],
     cells |-> UNION {clear_row(row) : row \in 1..(BUFFER_HEIGHT - 1)},
     mid |-> {w, [w EXCEPT !.row = 1]}]

(***************************************************************************)
(* history.rs: InputHistory                                                *)
(***************************************************************************)
MAX_ENTRIES == 32

ENTRY_CAPACITY == 128

\* InputHistory::new: every entry an empty FixedString
InputHistory_new ==
    [entries |-> [i \in 0..(MAX_ENTRIES - 1) |-> <<>>],
     len |-> 0, head |-> 0, cursor |-> 0]

\* FixedString::push_str: push_byte byte after byte, stopping at the first
\* one that finds the string full
FixedString_push_str(s, line, capacity) ==
    LET room == capacity - Len(s)
    IN  s \o SubSeq(line, 1, IF Len(line) < room THEN Len(line) ELSE room)

\* InputHistory::entry_index
entry_index(h, logical) ==
    IF logical >= h.len \/ h.len = 0 THEN None
    ELSE Some((h.head + logical) % MAX_ENTRIES)

\* InputHistory::latest
InputHistory_latest(h) ==
    IF h.len = 0 THEN None
    ELSE LET idx == entry_index(h, h.len - 1)
         IN  IF idx = None THEN None ELSE Some(h.entries[Unwrap(idx)])

\* InputHistory::reset_navigation
reset_navigation(h) == [h EXCEPT !.cursor = h.len]

\* InputHistory::push with a full history overwriting the oldest entry
\* without moving head
InputHistory_push_keeps_head(h, line) ==
    IF line = <<>> THEN reset_navigation(h)
    ELSE IF h.len > 0 /\ InputHistory_latest(h) = Some(line)
    THEN reset_navigation(h)
    ELSE LET grows == h.len < MAX_ENTRIES
             target == IF grows THEN (h.head + h.len) % MAX_ENTRIES ELSE h.head
             moved == IF grows THEN [h EXCEPT !.len = @ + 1] ELSE h
         IN  [moved EXCEPT
                 !.entries[target] = FixedString_push_str(<<>>, line, ENTRY_CAPACITY),
                 !.cursor = moved.len]

\* InputHistory::push
InputHistory_push(h, line) ==
    IF line = <<>> THEN reset_navigation(h)
    ELSE IF h.len > 0 /\ InputHistory_latest(h) = Some(line)
    THEN reset_navigation(h)
    ELSE LET grows == h.len < MAX_ENTRIES
             target == IF grows THEN (h.head + h.len) % MAX_ENTRIES ELSE h.head
             moved == IF grows THEN [h EXCEPT !.len = @ + 1]
                      ELSE [h EXCEPT !.head = (@ + 1) % MAX_ENTRIES]
         IN  [moved EXCEPT
                 !.entries[target] = FixedString_push_str(<<>>, line, ENTRY_CAPACITY),
                 !.cursor = moved.len]

\* The entry at the cursor, as previous and next return it.
EntryAtCursor(h) ==
    LET idx == entry_index(h, h.cursor)
    IN  IF idx = None THEN None ELSE Some(h.entries[Unwrap(idx)])

\* InputHistory::previous: the history after the call and the value
InputHistory_previous(h) ==
    IF h.len = 0 THEN [history |-> h, value |-> None]
    ELSE LET moved ==
                 IF h.cursor = 0 THEN h
                 ELSE IF h.cursor > h.len
                 THEN [h EXCEPT !.cursor = IF h.len >= 1 THEN h.len - 1 ELSE 0]
                 ELSE [h EXCEPT !.cursor = @ - 1]
         IN  [history |-> moved, value |-> EntryAtCursor(moved)]

\* InputHistory::next
InputHistory_next(h) ==
    IF h.cursor >= h.len
    THEN [history |-> [h EXCEPT !.cursor = h.len], value |-> None]
    ELSE LET moved == [h EXCEPT !.cursor = @ + 1]
         IN  IF moved.cursor >= moved.len
             THEN [history |-> [moved EXCEPT !.cursor = moved.len], value |-> None]
             ELSE [history |-> moved, value |-> EntryAtCursor(moved)]

\* The writer and the history where the shell does not run.
ShellIdle ==
    /\ WRITER = Writer_new
    /\ history = InputHistory_new

\* The processor, the descriptor tables, the handlers' data and the devices
\* as the boot loader hands them over: its own code selector 0x08 in CS, no
\* table of the kernel loaded, interrupts disabled.
KernelBootButQueue ==
    /\ cpu = [cs |-> W(8), tr |-> None, gdtr |-> None, idtr |-> None,
              cr2 |-> {}, intr |-> FALSE, halted |-> FALSE, reset |-> FALSE]
    /\ GDT = GlobalDescriptorTable_new
    /\ TSS = TaskStateSegment_new
    /\ IDT = <<>>
    /\ main = [pc |-> kernel_main[1], code_selector |-> {}, tss_selector |-> {}]
    /\ hstack = <<>>
    /\ TRIGGER_DF_ON_PF = FALSE
    /\ console = <<>>
    /\ serial = <<>>
    /\ time = [HZ |-> 18, TICKS |-> 0]
    /\ kbd = [full |-> FALSE, data |-> {}]
    /\ fired = [trigger |-> 0, int3 |-> 0]
    /\ popped = <<>>

\* The same with the scancode queue, the writer and the history as their
\* initializers leave them.
KernelBoot ==
    /\ KernelBootButQueue
    /\ QUEUE = ScancodeQueue_new
    /\ ShellIdle

\* The kernel's variables where the kernel does not run.
CpuIdle ==
    /\ KernelBoot
    /\ DF_STACK = {}
    /\ boot_info = None

(***************************************************************************)
(* The allocators on their own: allocate_frame called again and again      *)
(***************************************************************************)
\* Start and end addresses handed to BumpFrameAllocator::new: half-page
\* steps, so that unaligned bounds occur.
BumpAddrs == {W(k * (FRAME_SIZE \div 2)) : k \in 0..(2 * MaxFrameNo)}

AllocInputs ==
    {BootInfoFrameAllocator_new(m) : m \in MemoryMaps}
        \cup {BumpFrameAllocator_new(s, e) : s \in BumpAddrs, e \in BumpAddrs}

InitAlloc ==
    /\ alloc \in AllocInputs
    /\ returned = <<>>
    /\ MapIdle
    /\ PicIdle
    /\ CpuIdle

\* One allocate_frame call.
AllocCall ==
    /\ Len(returned) < MaxFrameNo + MaxExtraCalls
    /\ LET r == allocate_frame(alloc)
       IN  /\ alloc' = r.alloc
           /\ returned' = Append(returned, r.frame)
    /\ UNCHANGED <<mapVars, picVars, cpuVars>>

NextAlloc == AllocCall

SpecAlloc == InitAlloc /\ [][NextAlloc]_vars

(***************************************************************************)
(* Claims about the allocators                                             *)
(***************************************************************************)
RECURSIVE UsableFrames(_)
UsableFrames(m) ==
    IF m = <<>> THEN 0
    ELSE (IF Head(m).usable
          THEN Head(m).end_frame_number - Head(m).start_frame_number ELSE 0)
         + UsableFrames(Tail(m))

\* C4: on the boot-info allocator over a map whose usable regions total M
\* frames, the i-th allocate_frame call returns Some exactly when i <= M:
\* M times Some, then None on every later call.
C4_SomeExactlyMThenNone ==
    alloc.kind = "BootInfo" =>
        \A i \in 1..Len(returned) :
            IsSome(returned[i]) <=> i <= UsableFrames(alloc.memory_map)

\* A map with a reserved region and at least two usable frames, called until
\* None came back twice.
C4_Witness ==
    /\ alloc.kind = "BootInfo"
    /\ \E i \in 1..Len(alloc.memory_map) :
          /\ ~alloc.memory_map[i].usable
          /\ ~is_empty(alloc.memory_map[i])
    /\ UsableFrames(alloc.memory_map) >= 2
    /\ Len(returned) >= UsableFrames(alloc.memory_map) + 2
    /\ returned[Len(returned)] = None

\* C5: the frames one allocator returns strictly increase: they never
\* decrease and none is returned twice.
C5_FramesIncrease ==
    \A i \in 1..Len(returned) : \A j \in 1..Len(returned) :
        (i < j /\ IsSome(returned[i]) /\ IsSome(returned[j]))
            => Lt(Unwrap(returned[i]), Unwrap(returned[j]))

\* A boot-info allocator that returned the first frame of its first region
\* and went on to a later region.
C5_Witness ==
    /\ Len(returned) >= 2
    /\ IsSome(returned[1]) /\ IsSome(returned[2])
    /\ alloc.kind = "BootInfo"
    /\ alloc.region_index = 1
    /\ Unwrap(returned[1]) = start_addr(alloc.memory_map[1])

(***************************************************************************)
(* The mapper's environment: the memory the boot loader hands over         *)
(***************************************************************************)
\* Bounds of the mapper inputs.
MaxMapFrames == 6

MaxMapCalls == 2

MaxPages == 2

Frame(k) == W(k * FRAME_SIZE)

\* The virtual address with the given table indices.
Virt(p4, p3, p2, p1) ==
    BitOr(BitOr(Shl(W(p4), 39), Shl(W(p3), 30)), BitOr(Shl(W(p2), 21), Shl(W(p1), 12)))

\* The boot loader's tables: PML4 in frame 1, PDPT in frame 2, PD in frame 3,
\* PT in frame 4; page 0x1000 is mapped read-only to frame 7, and PD[1] maps
\* the 2-MiB page at 0x200000 as a huge page.
BootPml4 == Frame(1)

BootOffset == Shl(W(1), 40)

BootTables ==
    (<<Frame(1), 0>> :> BitOr(Frame(2), BitOr(PRESENT, WRITABLE)))
    @@ (<<Frame(2), 0>> :> BitOr(Frame(3), BitOr(PRESENT, WRITABLE)))
    @@ (<<Frame(3), 0>> :> BitOr(Frame(4), BitOr(PRESENT, WRITABLE)))
    @@ (<<Frame(3), 1>> :> BitOr(Frame(512), BitOr(HUGE_PAGE, BitOr(PRESENT, WRITABLE))))
    @@ (<<Frame(4), 1>> :> BitOr(Frame(7), PRESENT))

\* What the memory that is not a page table holds: data in the huge page,
\* and stale words in the free frames (here: words that read as present
\* entries pointing at the boot loader's PT).
BootData == (<<Frame(512), 1>> :> W(4660))

FirstFree == 16

StaleWord == BitOr(Frame(4), BitOr(PRESENT, WRITABLE))

StaleFrames(cap) ==
    [k \in {<<Frame(f), i>> : f \in FirstFree..(FirstFree + cap - 1), i \in {0, 1}}
        |-> StaleWord]

BootMemory(cap) == BootTables @@ BootData @@ StaleFrames(cap)

MapFlags ==
    {BitOr(PRESENT, WRITABLE), BitOr(PRESENT, BitOr(USER, NO_EXECUTE)), WRITABLE}

\* Pages handed to map_page: pages of the first PT, a page under the huge
\* entry, a page under the second PML4 slot.
MapVirts ==
    {Virt(0, 0, 0, i) : i \in 1..MaxPages} \cup {Virt(0, 0, 1, 1), Virt(1, 0, 0, 1)}

\* Physical addresses handed to map_page: a frame, and an unaligned address.
MapPhys == {Frame(5), W(6 * FRAME_SIZE + 2048)}

\* Ranges handed to identity_map_range: 0x1000..0x3000 (page-aligned, and
\* with both ends inside a page), the first page of the huge page, and the
\* two pages around the boundary of PML4 slots 0 and 1.
MapRanges ==
    {<<Frame(1), Frame(1 + MaxPages)>>,
     <<W(FRAME_SIZE + 2048), W(MaxPages * FRAME_SIZE + 2048)>>,
     <<Frame(512), Frame(513)>>,
     <<Virt(0, 511, 511, 511), Add(Virt(1, 0, 0, 0), W(FRAME_SIZE))>>}

InitMap ==
    /\ debug_assertions \in BOOLEAN
    /\ \E cap \in {1, MaxMapFrames} : \E fresh \in BOOLEAN :
          LET made == IF fresh
                      THEN Mapper_new(BootMemory(cap), BootPml4, BootOffset)
                      ELSE Mapper_from_existing(BootMemory(cap), BootPml4, BootOffset)
          IN  /\ mem = made.mem
              /\ mapper = made.mapper
              /\ alloc = BumpFrameAllocator_new(Frame(FirstFree), Frame(FirstFree + cap))
    /\ returned = <<>>
    /\ panicked = FALSE
    /\ op = [name |-> "none", n |-> 0]
    /\ PicIdle
    /\ CpuIdle

WalkState == [mem |-> mem, alloc |-> alloc, returned |-> returned,
              panicked |-> panicked, table |-> mapper.pml4_phys,
              writes |-> <<>>]

Commit(st) ==
    \E done \in {st} :
        /\ mem' = done.mem
        /\ alloc' = done.alloc
        /\ returned' = done.returned
        /\ panicked' = done.panicked

\* The page table a walk for virt ends in, through present entries that
\* point to tables (None when an entry on the way is absent or a huge page).
RECURSIVE WalkTo(_, _, _)
WalkTo(m, table, indices) ==
    IF indices = <<>> THEN Some(table)
    ELSE LET entry == ReadEntry(m, table, Head(indices))
         IN  IF is_unused(entry) \/ BitAnd(entry, HUGE_PAGE) # {}
             THEN None
             ELSE WalkTo(m, PageTableEntry_addr(entry), Tail(indices))

PtOf(m, root, virt) ==
    WalkTo(m, root, <<pml4_index(virt), pdpt_index(virt), pd_index(virt)>>)

LeafEntry(m, root, virt) ==
    IF PtOf(m, root, virt) = None THEN {}
    ELSE ReadEntry(m, Unwrap(PtOf(m, root, virt)), pt_index(virt))

LeafPresent(m, root, virt) == ~is_unused(LeafEntry(m, root, virt))

\* A call of Mapper::map_page.
MapPageCall ==
    /\ ~panicked
    /\ op.n < MaxMapCalls
    /\ \E virt \in MapVirts, phys \in MapPhys, flags \in MapFlags :
          /\ Commit(map_page(WalkState, mapper.pml4_phys, virt, phys, flags))
          /\ op' = [name |-> "map_page", n |-> op.n + 1,
                    virt |-> virt, phys |-> phys, flags |-> flags,
                    leaf_was |-> LeafEntry(mem, mapper.pml4_phys, virt),
                    repeated |-> /\ op.name = "map_page"
                                 /\ op.virt = virt /\ op.phys = phys
                                 /\ op.flags = flags]
    /\ UNCHANGED <<mapper, debug_assertions, picVars, cpuVars>>

\* A call of Mapper::identity_map_range.
IdentityMapRangeCall ==
    /\ ~panicked
    /\ op.n < MaxMapCalls
    /\ \E range \in MapRanges, flags \in MapFlags :
          /\ Commit(identity_map_range(WalkState, mapper.pml4_phys,
                                       range[1], range[2], flags))
          /\ op' = [name |-> "identity_map_range", n |-> op.n + 1,
                    start |-> range[1], end |-> range[2], flags |-> flags,
                    repeated |-> /\ op.name = "identity_map_range"
                                 /\ op.start = range[1] /\ op.end = range[2]
                                 /\ op.flags = flags]
    /\ UNCHANGED <<mapper, debug_assertions, picVars, cpuVars>>

NextMap == MapPageCall \/ IdentityMapRangeCall

SpecMap == InitMap /\ [][NextMap]_vars

(***************************************************************************)
(* Claims about the mapper                                                 *)
(***************************************************************************)
\* C2: a map_page call for a page whose leaf (PT) entry is present, with any
\* physical address and any flags, changes no word of memory and takes no
\* frame from the allocator.
C2_PresentLeafNeverOverwritten ==
    [][(op'.name = "map_page" /\ op'.n = op.n + 1
            /\ LeafPresent(mem, mapper.pml4_phys, op'.virt))
        => (mem' = mem /\ alloc' = alloc /\ returned' = returned /\ ~panicked')]_vars

\* A map_page call has run for a page whose leaf was present and held
\* another mapping than the one asked for.
C2_Witness ==
    /\ op.name = "map_page"
    /\ ~is_unused(op.leaf_was)
    /\ op.leaf_was # PageTableEntry_set(op.phys, op.flags)
    /\ PageTableEntry_addr(op.leaf_was) # PageTableEntry_addr(op.phys)

\* C3: a call of identity_map_range or map_page that repeats the arguments
\* of the call before it changes no word of memory and takes no frame.
C3_SecondCallChangesNothing ==
    [][(op'.n = op.n + 1 /\ op'.repeated)
        => (mem' = mem /\ alloc' = alloc /\ returned' = returned /\ ~panicked')]_vars

\* identity_map_range ran twice with the same arguments on a fresh root: the
\* first run built the three tables and installed every leaf of the range.
C3_Witness ==
    /\ op.name = "identity_map_range"
    /\ op.repeated
    /\ op.start = Frame(1)
    /\ Len(returned) = 3
    /\ \A i \in 1..MaxPages :
          LeafEntry(mem, mapper.pml4_phys, Frame(i))
              = PageTableEntry_set(Frame(i), op.flags)

(***************************************************************************)
(* The controllers on their own: remap_pic and send_eoi called in any      *)
(* order, with any argument, between interrupts on any line                *)
(***************************************************************************)
EoiArgs == {W(n) : n \in 0..47}

MaxInService == 2

InitPic ==
    /\ PicIdle
    /\ AllocIdle
    /\ MapIdle
    /\ CpuIdle

\* A call of remap_pic.
RemapPicCall ==
    /\ io' = remap_pic
    /\ pic' = ApplyIo(pic, remap_pic)
    /\ picop' = [name |-> "remap_pic"]
    /\ remapped' = TRUE
    /\ UNCHANGED <<allocVars, mapVars, cpuVars>>

\* A call of send_eoi(arg).
SendEoiCall ==
    \E arg \in EoiArgs :
        /\ io' = send_eoi(arg)
        /\ pic' = ApplyIo(pic, send_eoi(arg))
        /\ picop' = [name |-> "send_eoi", arg |-> arg]
        /\ UNCHANGED <<remapped, allocVars, mapVars, cpuVars>>

\* A device raises a line while no request is pending and fewer than
\* MaxInService lines are in service.
DeviceRaise ==
    /\ pic.master.irr = {} /\ pic.slave.irr = {}
    /\ Cardinality(pic.master.isr \ {CASCADE_LINE}) + Cardinality(pic.slave.isr)
          < MaxInService
    /\ \E n \in 0..15 :
          /\ pic' = RaiseLine(pic, n)
          /\ picop' = [name |-> "raise", irq |-> n]
    /\ io' = <<>>
    /\ UNCHANGED <<remapped, allocVars, mapVars, cpuVars>>

\* The processor acknowledges the request of the highest priority.
CpuAcknowledge ==
    /\ MasterRequests(pic) # {}
    /\ pic' = Acknowledge(pic).pic
    /\ picop' = [name |-> "ack", irq |-> Acknowledge(pic).irq,
                 vector |-> Acknowledge(pic).vector,
                 remapped |-> remapped]
    /\ io' = <<>>
    /\ UNCHANGED <<remapped, allocVars, mapVars, cpuVars>>

NextPic == RemapPicCall \/ SendEoiCall \/ DeviceRaise \/ CpuAcknowledge

SpecPic == InitPic /\ [][NextPic]_vars

(***************************************************************************)
(* Claims about the controllers                                            *)
(***************************************************************************)
\* The writes of an I/O log to ports other than the delay port.
DeviceWrites(log) == SelectSeq(log, LAMBDA e : e[2] # DELAY_PORT)

\* How many entries of an I/O log are equal to e.
Count(log, e) == Cardinality({i \in 1..Len(log) : log[i] = e})

\* The eight initialization command words, as (port, value), in the order
\* ICW1 master, ICW1 slave, ICW2 master, ICW2 slave, ICW3 master, ICW3
\* slave, ICW4 master, ICW4 slave.
IcwWrites ==
    <<Out(PIC1_COMMAND, W(17)), Out(PIC2_COMMAND, W(17)),
      Out(PIC1_DATA, W(32)), Out(PIC2_DATA, W(40)),
      Out(PIC1_DATA, W(4)), Out(PIC2_DATA, W(2)),
      Out(PIC1_DATA, W(1)), Out(PIC2_DATA, W(1))>>

\* C6 (as stated): after remap_pic the master mask is 0xFC, only IRQ0 and
\* IRQ1 unmasked, and the slave mask is 0xFF, every line masked.  The code
\* writes 0x00 to both data ports, which unmasks all sixteen lines.
C6_MasksAfterRemap ==
    picop.name = "remap_pic"
        => (pic.master.imr = W(252) /\ pic.slave.imr = W(255))

\* C7: remap_pic sends ICW1..ICW4 to master and slave in the order ICW1,
\* ICW1, ICW2 (0x20, 0x28), ICW3 (4, 2), ICW4 (1, 1), each of these writes
\* followed at once by a write to the delay port; and once remap_pic has
\* run, a line n that the processor acknowledges arrives at vector 0x20 + n.
C7_IcwOrderAndVectors ==
    /\ picop.name = "remap_pic" =>
          /\ Len(DeviceWrites(io)) >= Len(IcwWrites)
          /\ SubSeq(DeviceWrites(io), 1, Len(IcwWrites)) = IcwWrites
          /\ \A i \in 1..Len(io) :
                (io[i][2] # DELAY_PORT
                     /\ Len(DeviceWrites(SubSeq(io, 1, i))) <= Len(IcwWrites))
                    => (i < Len(io) /\ io[i + 1][2] = DELAY_PORT)
          /\ pic.master.step = 0 /\ pic.slave.step = 0
    /\ (picop.name = "ack" /\ picop.remapped) =>
          picop.vector = W(32 + picop.irq)

\* A line of the slave has been acknowledged at its vector 0x28.. after
\* remap_pic ran.
C7_Witness ==
    /\ picop.name = "ack"
    /\ picop.remapped
    /\ picop.irq = 12
    /\ picop.vector = W(44)

\* C8 (as stated): send_eoi(irq) with irq in 0..15 writes 0x20 to the master
\* command port, and to the slave command port exactly when irq >= 8.
C8_EoiByIrqNumber ==
    (picop.name = "send_eoi" /\ Lt(picop.arg, W(16)))
        => /\ Count(io, Out(PIC1_COMMAND, EOI)) = 1
           /\ Count(io, Out(PIC2_COMMAND, EOI)) = 1 <=> Ge(picop.arg, W(8))

\* C8 (amended): the argument of send_eoi is the vector of the remapped
\* line, 0x20 + n for IRQ n in 0..15: send_eoi writes 0x20 once to the
\* master command port, and before it once to the slave command port exactly
\* when n >= 8; it writes nothing else.
C8_EoiByVector ==
    (picop.name = "send_eoi" /\ Ge(picop.arg, W(32)) /\ Lt(picop.arg, W(48)))
        => LET n == N(picop.arg) - 32
           IN  io = (IF n >= 8 THEN <<Out(PIC2_COMMAND, EOI)>> ELSE <<>>)
                        \o <<Out(PIC1_COMMAND, EOI)>>

\* send_eoi was called with the vector of IRQ 12 while lines of both
\* controllers were in service, and wrote to both command ports.
C8_Witness ==
    /\ picop.name = "send_eoi"
    /\ picop.arg = W(44)
    /\ remapped
    /\ Len(io) = 2
    /\ io[1] = Out(PIC2_COMMAND, EOI)

(***************************************************************************)
(* The kernel: kernel_main from its first statement, the interrupt         *)
(* handlers, the processor's interrupt and exception delivery, and the     *)
(* devices                                                                 *)
(***************************************************************************)
\* Bounds of the kernel's environment: timer ticks counted, scancodes
\* queued, other lines with a request at a time, calls of the re-fault hook,
\* breakpoints.
MaxTicks == 2

MaxKeys == 2

MaxOther == 1

MaxTriggers == 1

MaxBreakpoints == 1

\* The scancode the keyboard sends.
Scancodes == {W(30)}

\* Lines other than timer and keyboard on which a device raises a request:
\* line 7 of the master, line 12 (PS/2 mouse) of the slave.
OtherLines == {7, 12}

\* Addresses at which the linker can place DF_STACK, a byte array: one that
\* is 16-byte aligned and one that is not.
DfStackBases == {W(2113536), W(2113537)}

\* KERNEL_MAP_LIMIT: 2 MiB in the source, cut down here to MaxPages pages.
KERNEL_MAP_LIMIT == Frame(MaxPages)

\* Tables of a boot loader that maps nothing below the window onto physical
\* memory: PML4[2] -> PDPT in frame 2, whose first entry is a 1-GiB page.
BootTablesHigh ==
    (<<Frame(1), 2>> :> BitOr(Frame(2), BitOr(PRESENT, WRITABLE)))
    @@ (<<Frame(2), 0>> :> BitOr(HUGE_PAGE, BitOr(PRESENT, WRITABLE)))

\* The BootInfo of a machine with cap usable frames from frame FirstFree on.
BootInfo(cap) ==
    [memory_map |-> <<Region(0, FirstFree, FALSE),
                      Region(FirstFree, FirstFree + cap, TRUE)>>,
     physical_memory_offset |-> BootOffset]

\* What the boot loader can hand over: memory and BootInfo.
Boots ==
    {[mem |-> BootMemory(MaxMapFrames), boot_info |-> BootInfo(MaxMapFrames)]}
        \cup {[mem |-> BootTablesHigh @@ StaleFrames(cap),
               boot_info |-> BootInfo(cap)] : cap \in {1, MaxMapFrames}}

Init ==
    /\ KernelBoot
    /\ PicIdle
    /\ AllocIdle
    /\ DF_STACK \in DfStackBases
    /\ \E b \in Boots : mem = b.mem /\ boot_info = Some(b.boot_info)
    /\ mapper = None
    /\ panicked = FALSE
    /\ debug_assertions = FALSE
    /\ op = [name |-> "none", n |-> 0]

\* The kernel's state as one record, and the assignment of such a record.
K ==
    [cpu |-> cpu, GDT |-> GDT, TSS |-> TSS, IDT |-> IDT, main |-> main,
     hstack |-> hstack, TRIGGER_DF_ON_PF |-> TRIGGER_DF_ON_PF,
     console |-> console, serial |-> serial, time |-> time, QUEUE |-> QUEUE,
     kbd |-> kbd, fired |-> fired, popped |-> popped,
     pic |-> pic, io |-> io, picop |-> picop, remapped |-> remapped]

KernelSet(k) ==
    \E next \in {k} :
        /\ cpu' = next.cpu
        /\ GDT' = next.GDT
        /\ TSS' = next.TSS
        /\ IDT' = next.IDT
        /\ main' = next.main
        /\ hstack' = next.hstack
        /\ TRIGGER_DF_ON_PF' = next.TRIGGER_DF_ON_PF
        /\ console' = next.console
        /\ serial' = next.serial
        /\ time' = next.time
        /\ QUEUE' = next.QUEUE
        /\ kbd' = next.kbd
        /\ fired' = next.fired
        /\ popped' = next.popped
        /\ pic' = next.pic
        /\ io' = next.io
        /\ picop' = next.picop
        /\ remapped' = next.remapped
        /\ UNCHANGED <<DF_STACK, boot_info, WRITER, history>>

\* The processor's page walk from CR3 (the boot loader's PML4, which the
\* kernel keeps): virt is mapped when every entry on the way is present, a
\* huge-page entry ending the walk.
RECURSIVE Walks(_, _, _)
Walks(m, table, indices) ==
    IF indices = <<>> THEN TRUE
    ELSE LET entry == ReadEntry(m, table, Head(indices))
         IN  /\ BitAnd(entry, PRESENT) # {}
             /\ \/ (BitAnd(entry, HUGE_PAGE) # {} /\ Len(indices) \in {2, 3})
                \/ Walks(m, PageTableEntry_addr(entry), Tail(indices))

IsCanonical(virt) ==
    IF 47 \in virt THEN (48..63) \subseteq virt ELSE virt \cap (48..63) = {}

Mapped(m, virt) ==
    Walks(m, BootPml4,
          <<pml4_index(virt), pdpt_index(virt), pd_index(virt), pt_index(virt)>>)

\* The selector names a code segment of the table in GDTR (of the boot
\* loader's table while the kernel has not loaded its own).
ValidCode(k, sel) ==
    LET index == N(Shr(sel, 3))
    IN  IF k.cpu.gdtr = None THEN sel = W(8)
        ELSE /\ index * 8 + 7 <= N(Unwrap(k.cpu.gdtr).limit)
             /\ index + 1 <= Len(k.GDT)
             /\ k.GDT[index + 1].kind = "kernel_code"

\* The processor can deliver vector v: the gate lies inside the loaded
\* table, is present, is an interrupt or trap gate with a valid code
\* selector, and a stack-table index it names selects a populated slot of
\* the TSS in the task register.
GateOk(k, v) ==
    LET gate == IdtAt(k.IDT, v)
    IN  /\ k.cpu.idtr # None
        /\ v * 16 + 15 <= N(Unwrap(k.cpu.idtr).limit)
        /\ GatePresent(gate)
        /\ GateType(gate) \in {INTERRUPT_GATE, TRAP_GATE}
        /\ ValidCode(k, gate.selector)
        /\ GateIst(gate) # 0 =>
              /\ k.cpu.tr # None
              /\ k.TSS.interrupt_stack_table[GateIst(gate) - 1] # {}

\* Entry into the handler of vector v: the frame is pushed on the stack the
\* gate selects, and an interrupt gate clears the interrupt flag.
Enter(k, v, ec) ==
    LET gate == IdtAt(k.IDT, v)
        frame == [handler |-> HandlerAt(GateOffset(gate)),
                  vector |-> v,
                  at |-> 1,
                  error_code |-> ec,
                  stack |-> IF GateIst(gate) = 0
                            THEN [ist |-> 0, top |-> {}]
                            ELSE [ist |-> GateIst(gate),
                                  top |-> k.TSS.interrupt_stack_table[GateIst(gate) - 1]],
                  saved_if |-> k.cpu.intr,
                  addr |-> {},
                  armed |-> FALSE,
                  scancode |-> {},
                  log |-> <<>>]
    IN  [k EXCEPT !.hstack = Append(@, frame),
                  !.cpu.intr = IF GateType(gate) = INTERRUPT_GATE THEN FALSE ELSE @,
                  !.cpu.halted = FALSE]

\* The exception the processor raises when it cannot deliver vector v: #GP
\* for a slot outside the loaded table or one that is not an interrupt or
\* trap gate (the case of an all-zero slot), #NP (vector 11) for a gate of
\* a valid type that is not present, and #GP in the remaining cases.
DeliveryFault(k, v) ==
    IF \/ k.cpu.idtr = None
       \/ v * 16 + 15 > N(Unwrap(k.cpu.idtr).limit)
       \/ GateType(IdtAt(k.IDT, v)) \notin {INTERRUPT_GATE, TRAP_GATE}
    THEN VEC_GENERAL_PROTECTION
    ELSE IF ~GatePresent(IdtAt(k.IDT, v)) THEN 11
         ELSE VEC_GENERAL_PROTECTION

\* Delivery of vector v, of class "benign" (external interrupts,
\* breakpoints), "contributory", "page_fault" or "double_fault".  A fault of
\* the delivery itself is delivered in turn after a benign event, becomes a
\* double fault after a contributory exception or a page fault, and resets
\* the processor (triple fault) after a double fault.
RECURSIVE Deliver(_, _, _, _)
Deliver(k, v, class, ec) ==
    IF GateOk(k, v) THEN Enter(k, v, ec)
    ELSE CASE class = "benign" ->
                  Deliver(k, DeliveryFault(k, v), "contributory", W(v * 8 + 2))
           [] class \in {"contributory", "page_fault"} ->
                  Deliver(k, VEC_DOUBLE_FAULT, "double_fault", W(0))
           [] OTHER -> [k EXCEPT !.cpu.reset = TRUE]

Top(k) == k.hstack[Len(k.hstack)]

AtomicBool_swap_keeps_value(flag, value) == [old |-> flag, new |-> flag]

\* AtomicBool::swap(value, SeqCst): one indivisible read and write.
AtomicBool_swap(flag, value) == [old |-> flag, new |-> value]

SetTop(k, f) == [k EXCEPT !.hstack[Len(k.hstack)] = f]

Advance(f) == [f EXCEPT !.at = @ + 1]

\* One statement s of the handler on top of the handler stack.
Exec(k, s) ==
    LET f == Top(k)
    IN  CASE s.op = "println" ->
                 [SetTop(k, Advance(f)) EXCEPT
                     !.console = Append(@, [text |-> s.arg, addr |-> f.addr,
                                            error_code |-> f.error_code,
                                            stack |-> f.stack])]
          [] s.op = "serial" ->
                 [SetTop(k, Advance(f)) EXCEPT !.serial = Append(@, s.arg)]
          [] s.op = "read_cr2" ->
                 SetTop(k, Advance([f EXCEPT !.addr = k.cpu.cr2]))
          [] s.op = "swap_trigger" ->
                 LET r == AtomicBool_swap(k.TRIGGER_DF_ON_PF, FALSE)
                 IN  [SetTop(k, Advance([f EXCEPT !.armed = r.old]))
                         EXCEPT !.TRIGGER_DF_ON_PF = r.new]
          [] s.op = "read_if_armed" ->
                 IF ~f.armed \/ Mapped(mem, s.arg)
                 THEN SetTop(k, Advance(f))
                 ELSE Deliver([k EXCEPT !.cpu.cr2 = s.arg],
                              IF IsCanonical(s.arg) THEN VEC_PAGE_FAULT
                              ELSE VEC_GENERAL_PROTECTION,
                              IF IsCanonical(s.arg) THEN "page_fault"
                              ELSE "contributory", W(0))
          [] s.op = "hlt_loop" -> [k EXCEPT !.cpu.halted = TRUE]
          [] s.op = "inb" ->
                 [SetTop(k, Advance([f EXCEPT
                                 !.scancode = k.kbd.data,
                                 !.log = Append(@, In(s.arg, k.kbd.data))]))
                     EXCEPT !.kbd.full = FALSE]
          [] s.op = "push_scancode" ->
                 [SetTop(k, Advance([f EXCEPT
                                 !.log = Append(@, Did("push_scancode", f.scancode))]))
                     EXCEPT !.QUEUE = ScancodeQueue_push(@, f.scancode)]
          [] s.op = "send_eoi" ->
                 [SetTop(k, Advance([f EXCEPT !.log = @ \o send_eoi(s.arg)]))
                     EXCEPT !.pic = ApplyIo(@, send_eoi(s.arg))]
          [] s.op = "tick" ->
                 \* TICKS.fetch_add(1); the counter is exact up to
                 \* MaxTicks + 1, which a timer that stops after MaxTicks
                 \* never exceeds; larger values are not told apart
                 [SetTop(k, Advance([f EXCEPT !.log = Append(@, Did("tick", {}))]))
                     EXCEPT !.time.TICKS = IF @ <= MaxTicks THEN @ + 1 ELSE @]
          [] OTHER -> k

\* The main context executes statement l: no handler is running, the
\* processor is neither halted nor reset, and no panic was raised.
MainAt(l) ==
    /\ main.pc = l
    /\ hstack = <<>>
    /\ ~cpu.halted
    /\ ~cpu.reset
    /\ ~panicked

NoPaging == UNCHANGED <<allocVars, mapVars>>

\* gdt::init: TSS.interrupt_stack_table[DOUBLE_FAULT_IST_INDEX] = stack_end
GdtSetIst ==
    /\ MainAt("gdt.ist")
    /\ KernelSet([K EXCEPT
           !.TSS.interrupt_stack_table[DOUBLE_FAULT_IST_INDEX] = stack_end(DF_STACK),
           !.main.pc = After(@)])
    /\ NoPaging

\* gdt::init: code_selector = gdt.append(Descriptor::kernel_code_segment())
GdtAppendCode ==
    /\ MainAt("gdt.append_code")
    /\ LET r == gdt_append(GDT, Descriptor_kernel_code_segment)
       IN  /\ panicked' = r.full
           /\ KernelSet(IF r.full THEN [K EXCEPT !.console = @ \o panic]
                        ELSE [K EXCEPT !.GDT = r.table,
                                       !.main.code_selector = r.selector,
                                       !.main.pc = After(@)])
    /\ UNCHANGED <<allocVars, mem, mapper, debug_assertions, op>>

\* gdt::init: tss_selector = gdt.append(Descriptor::tss_segment(&TSS))
GdtAppendTss ==
    /\ MainAt("gdt.append_tss")
    /\ LET r == gdt_append(GDT, Descriptor_tss_segment)
       IN  /\ panicked' = r.full
           /\ KernelSet(IF r.full THEN [K EXCEPT !.console = @ \o panic]
                        ELSE [K EXCEPT !.GDT = r.table,
                                       !.main.tss_selector = r.selector,
                                       !.main.pc = After(@)])
    /\ UNCHANGED <<allocVars, mem, mapper, debug_assertions, op>>

\* gdt::init: gdt.load()
GdtLoad ==
    /\ MainAt("gdt.load")
    /\ KernelSet([K EXCEPT !.cpu.gdtr = Some([limit |-> W(Len(GDT) * 8 - 1)]),
                           !.main.pc = After(@)])
    /\ NoPaging

\* gdt::init: CS::set_reg(code_selector)
SetCs ==
    /\ MainAt("gdt.set_cs")
    /\ KernelSet([K EXCEPT !.cpu.cs = main.code_selector,
                           !.main.pc = After(@)])
    /\ NoPaging

\* gdt::init: load_tss(tss_selector)
LoadTss ==
    /\ MainAt("gdt.load_tss")
    /\ KernelSet([K EXCEPT !.cpu.tr = Some(main.tss_selector),
                           !.main.pc = After(@)])
    /\ NoPaging

\* interrupts::init: one assignment IDT[vector] = IdtEntry::new(...) or
\* IdtEntry::new_with_ist(...)
IdtSetEntry ==
    /\ main.pc \in DOMAIN IdtWrites
    /\ MainAt(main.pc)
    /\ LET w == IdtWrites[main.pc]
           entry == IF w.ist = None
                    THEN IdtEntry_new(HandlerAddr[w.handler], cpu.cs)
                    ELSE IdtEntry_new_with_ist(HandlerAddr[w.handler],
                                               Unwrap(w.ist), cpu.cs)
       IN  KernelSet([K EXCEPT !.IDT = (w.vector :> entry) @@ @,
                               !.main.pc = After(@)])
    /\ NoPaging

\* interrupts::init: remap_pic()
RemapPic ==
    /\ MainAt("remap_pic")
    /\ KernelSet([K EXCEPT !.pic = ApplyIo(@, remap_pic),
                           !.io = remap_pic,
                           !.picop = [name |-> "remap_pic"],
                           !.remapped = TRUE,
                           !.main.pc = After(@)])
    /\ NoPaging

\* interrupts::init: load_idt(ptr::addr_of!(IDT).cast(), IDT_LEN)
LoadIdt ==
    /\ MainAt("load_idt")
    /\ KernelSet([K EXCEPT !.cpu.idtr = Some([limit |-> load_idt_limit(IDT_LEN),
                                               base |-> IdtBase]),
                           !.main.pc = After(@)])
    /\ NoPaging

\* interrupts::init: x86_64::instructions::interrupts::enable()
EnableInterrupts ==
    /\ MainAt("enable")
    /\ KernelSet([K EXCEPT !.cpu.intr = TRUE, !.main.pc = After(@)])
    /\ NoPaging

\* main::init_paging: the boot-info allocator, a Mapper over the boot
\* loader's tables, and the two identity_map_range calls; a panic inside
\* leaves the main context in the panic handler's loop.
InitPaging ==
    /\ MainAt("init_paging")
    /\ LET info == Unwrap(boot_info)
           made == Mapper_from_existing(mem, BootPml4, info.physical_memory_offset)
           flags == BitOr(PRESENT, WRITABLE)
           st0 == [mem |-> made.mem,
                   alloc |-> BootInfoFrameAllocator_new(info.memory_map),
                   returned |-> <<>>, panicked |-> FALSE, table |-> BootPml4,
                   writes |-> <<>>]
           st1 == identity_map_range(st0, made.mapper.pml4_phys, W(0),
                                     KERNEL_MAP_LIMIT, flags)
           st2 == identity_map_range(st1, made.mapper.pml4_phys, W(753664),
                                     W(761856), flags)
       IN  /\ Commit(st2)
           /\ mapper' = made.mapper
           /\ KernelSet(IF st2.panicked
                        THEN [K EXCEPT !.console = @ \o panic]
                        ELSE [K EXCEPT !.main.pc = After(@)])
    /\ UNCHANGED <<debug_assertions, op>>

\* main: serial::init_unsafe_16550_default()
SerialInit ==
    /\ MainAt("serial_init")
    /\ KernelSet([K EXCEPT !.io = init_unsafe_16550_default,
                           !.main.pc = After(@)])
    /\ NoPaging

\* main: time::init_pit(100)
InitPit ==
    /\ MainAt("init_pit")
    /\ KernelSet([K EXCEPT !.io = init_pit(100),
                           !.time.HZ = 100,
                           !.main.pc = After(@)])
    /\ NoPaging

\* shell::bootstrap up to the loop of Shell::run: the banner and the prompt.
Bootstrap ==
    /\ MainAt("bootstrap")
    /\ KernelSet([K EXCEPT
           !.console = Append(@, [text |-> "banner", addr |-> {},
                                  error_code |-> {},
                                  stack |-> [ist |-> 0, top |-> {}]]),
           !.main.pc = After(@)])
    /\ NoPaging

\* Shell::run: keyboard::pop_scancode(), atomic under without_interrupts; a
\* scancode is handled, and the loop goes on to hlt on None.
ShellPop ==
    /\ MainAt("shell.pop")
    /\ LET r == ScancodeQueue_pop(QUEUE)
       IN  KernelSet(IF r.value = None
                     THEN [K EXCEPT !.main.pc = "shell.hlt"]
                     ELSE [K EXCEPT !.QUEUE = r.queue,
                                    !.popped = Append(@, Unwrap(r.value))])
    /\ NoPaging

\* Shell::run as a loop that never leaves hlt once pop_scancode returned None
ShellHlt_never_pops_again ==
    /\ MainAt("shell.hlt")
    /\ KernelSet([K EXCEPT !.cpu.halted = TRUE])
    /\ NoPaging

\* Shell::run: hlt, which ends when an interrupt is delivered.
ShellHlt ==
    /\ MainAt("shell.hlt")
    /\ KernelSet([K EXCEPT !.cpu.halted = TRUE, !.main.pc = "shell.pop"])
    /\ NoPaging

\* exceptions::trigger_double_fault_via_page_fault, called in the main
\* context once start-up is over: TRIGGER_DF_ON_PF.store(true)
TriggerStore ==
    /\ MainAt("shell.pop")
    /\ fired.trigger < MaxTriggers
    /\ KernelSet([K EXCEPT !.TRIGGER_DF_ON_PF = TRUE,
                           !.fired.trigger = @ + 1,
                           !.main.pc = "trigger.read"])
    /\ NoPaging

\* exceptions::trigger_double_fault_via_page_fault: read_volatile(ptr)
TriggerRead ==
    /\ MainAt("trigger.read")
    /\ KernelSet(IF Mapped(mem, HighAddr)
                 THEN [K EXCEPT !.main.pc = "shell.pop"]
                 ELSE Deliver([K EXCEPT !.cpu.cr2 = HighAddr],
                              VEC_PAGE_FAULT, "page_fault", W(0)))
    /\ NoPaging

\* A breakpoint instruction executed in the main context.
Int3 ==
    /\ MainAt("shell.pop")
    /\ fired.int3 < MaxBreakpoints
    /\ KernelSet(Deliver([K EXCEPT !.fired.int3 = @ + 1],
                         InterruptIndex_Breakpoint, "benign", {}))
    /\ NoPaging

\* The handler on top of the stack executes its next statement; the loops
\* at the end of the fatal handlers take no step.
HandlerStep ==
    /\ hstack # <<>>
    /\ ~cpu.halted
    /\ ~cpu.reset
    /\ Top(K).at <= Len(Body(Top(K).handler))
    /\ Body(Top(K).handler)[Top(K).at].op # "spin_loop"
    /\ KernelSet(Exec(K, Body(Top(K).handler)[Top(K).at]))
    /\ NoPaging

\* The handler on top of the stack returns: iretq restores the interrupt
\* flag of the interrupted context.
HandlerReturn ==
    /\ hstack # <<>>
    /\ ~cpu.halted
    /\ ~cpu.reset
    /\ Top(K).at = Len(Body(Top(K).handler)) + 1
    /\ KernelSet([K EXCEPT !.hstack = SubSeq(@, 1, Len(@) - 1),
                           !.cpu.intr = Top(K).saved_if])
    /\ NoPaging

\* The PIT raises IRQ 0.
TimerFires ==
    /\ time.TICKS < MaxTicks
    /\ 0 \notin pic.master.irr
    /\ ~cpu.reset
    /\ KernelSet([K EXCEPT !.pic = RaiseLine(@, 0)])
    /\ NoPaging

\* A key is pressed or released: the keyboard controller latches the
\* scancode for port 0x60 and raises IRQ 1; it sends nothing more before
\* the byte is read.
KeyPressed ==
    /\ QUEUE.len + Len(popped) < MaxKeys
    /\ ~kbd.full
    /\ ~cpu.reset
    /\ \E sc \in Scancodes :
          KernelSet([K EXCEPT !.kbd = [full |-> TRUE, data |-> sc],
                              !.pic = RaiseLine(@, 1)])
    /\ NoPaging

\* The lines with a request latched or in service.
Busy(p) ==
    p.master.irr \cup p.master.isr
        \cup {8 + n : n \in p.slave.irr \cup p.slave.isr}

\* Another device raises its line.
OtherDeviceRaises ==
    /\ Cardinality(Busy(pic) \cap OtherLines) < MaxOther
    /\ ~cpu.reset
    /\ \E n \in OtherLines \ Busy(pic) :
          KernelSet([K EXCEPT !.pic = RaiseLine(@, n)])
    /\ NoPaging

\* With the interrupt flag set, the processor acknowledges the request of
\* the controllers and delivers the vector they supply.
InterruptDelivery ==
    /\ cpu.intr
    /\ ~cpu.reset
    /\ MasterRequests(pic) # {}
    /\ LET ack == Acknowledge(pic)
       IN  KernelSet(Deliver([K EXCEPT !.pic = ack.pic],
                             N(ack.vector), "benign", {}))
    /\ NoPaging

Next ==
    \/ GdtSetIst \/ GdtAppendCode \/ GdtAppendTss \/ GdtLoad \/ SetCs \/ LoadTss
    \/ IdtSetEntry \/ RemapPic \/ LoadIdt \/ EnableInterrupts
    \/ InitPaging \/ SerialInit \/ InitPit \/ Bootstrap
    \/ ShellPop \/ ShellHlt \/ TriggerStore \/ TriggerRead \/ Int3
    \/ HandlerStep \/ HandlerReturn
    \/ TimerFires \/ KeyPressed \/ OtherDeviceRaises \/ InterruptDelivery

Spec == Init /\ [][Next]_vars

(***************************************************************************)
(* Claims about the kernel                                                 *)
(***************************************************************************)
\* The handler on top of the stack has come to rest: the processor is
\* halted or reset, or the handler spins in its final loop.
AtRest ==
    /\ hstack # <<>>
    /\ \/ cpu.halted
       \/ cpu.reset
       \/ /\ Top(K).at <= Len(Body(Top(K).handler))
          /\ Body(Top(K).handler)[Top(K).at].op = "spin_loop"

\* C1 (as stated): once the page fault of trigger_double_fault_via_page_fault
\* has been delivered and the handlers have come to rest, the console holds
\* a page-fault report for 0x4000_0000_0000 and after it a double-fault
\* report written on the IST stack, the double-fault handler has halted the
\* processor, and the processor was not reset by a triple fault.  In the
\* code the second read faults inside the running page-fault handler, which
\* the processor delivers as one more page fault: the run ends in the spin
\* loop of the second page-fault handler.
C1_TriggerEndsInDoubleFault ==
    (AtRest /\ fired.trigger > 0 /\ hstack[1].vector = VEC_PAGE_FAULT)
        => /\ \E i, j \in 1..Len(console) :
                 /\ i < j
                 /\ console[i].text = "EXCEPTION: PAGE FAULT"
                 /\ console[i].addr = HighAddr
                 /\ console[j].text = "EXCEPTION: DOUBLE FAULT"
                 /\ console[j].stack.ist = DOUBLE_FAULT_IST_INDEX_FOR_IDT
                 /\ console[j].stack.top = stack_end(DF_STACK)
           /\ Top(K).handler = "double_fault_handler"
           /\ cpu.halted
           /\ ~cpu.reset

\* C9: when the timer or the keyboard handler is about to return, it has
\* written the end-of-interrupt command exactly once, to the master, and
\* its line is no longer in service; the keyboard handler wrote it after it
\* read port 0x60 and pushed that byte to the queue.  A timer or keyboard
\* line is in service only while its handler runs, so that the controller
\* can deliver the line again after each handled interrupt.
C9_OneEoiBeforeReturn ==
    /\ \A i \in 1..Len(hstack) :
          LET f == hstack[i]
          IN  (/\ f.handler \in {"timer_interrupt_handler",
                                 "keyboard_interrupt_handler"}
               /\ f.at = Len(Body(f.handler)) + 1)
                  => /\ Count(f.log, Out(PIC1_COMMAND, EOI)) = 1
                     /\ Count(f.log, Out(PIC2_COMMAND, EOI)) = 0
                     /\ (f.vector - InterruptIndex_Timer) \notin pic.master.isr
                     /\ f.handler = "keyboard_interrupt_handler" =>
                           \E a, b, c \in 1..Len(f.log) :
                               /\ a < b /\ b < c
                               /\ f.log[a] = In(KBD_DATA, f.scancode)
                               /\ f.log[b] = Did("push_scancode", f.scancode)
                               /\ f.log[c] = Out(PIC1_COMMAND, EOI)
    /\ \A line \in {0, 1} :
          (remapped /\ line \in pic.master.isr)
              => \E i \in 1..Len(hstack) :
                    /\ hstack[i].vector = InterruptIndex_Timer + line
                    /\ Count(hstack[i].log, Out(PIC1_COMMAND, EOI)) = 0

\* The keyboard handler is about to return from the second keyboard
\* interrupt: the line was delivered again after the first one was handled
\* and its scancode taken by the shell.
C9_Witness ==
    /\ hstack # <<>>
    /\ Top(K).handler = "keyboard_interrupt_handler"
    /\ Top(K).at = Len(keyboard_interrupt_handler) + 1
    /\ Len(popped) = 1
    /\ QUEUE.len = 1

\* gdt::init has run to completion: the IST slot holds the top of the
\* double-fault stack, the kernel's GDT is loaded, CS holds the selector of
\* its code segment and the task register the selector of its TSS.
GdtInitDone ==
    /\ TSS.interrupt_stack_table[DOUBLE_FAULT_IST_INDEX] = stack_end(DF_STACK)
    /\ cpu.gdtr # None
    /\ cpu.cs = main.code_selector
    /\ ValidCode(K, cpu.cs)
    /\ cpu.tr = Some(main.tss_selector)

\* C10: when interrupts::init executes a statement, when any slot of the
\* IDT has been written, or when the IDT has been loaded, gdt::init has run
\* to completion; and when the loaded IDT holds a present gate for vector 8,
\* the TSS slot its stack-table index selects is populated.
C10_GdtBeforeIdt ==
    /\ (\/ \E i \in 1..Len(interrupts_init) : main.pc = interrupts_init[i]
        \/ DOMAIN IDT # {}
        \/ cpu.idtr # None)
           => GdtInitDone
    /\ (cpu.idtr # None /\ GatePresent(IdtAt(IDT, VEC_DOUBLE_FAULT)))
           => /\ GateIst(IdtAt(IDT, VEC_DOUBLE_FAULT)) = DOUBLE_FAULT_IST_INDEX + 1
              /\ TSS.interrupt_stack_table[DOUBLE_FAULT_IST_INDEX] # {}
              /\ cpu.tr # None

\* interrupts::init has returned: the IDT is loaded with a present gate for
\* vector 8 and interrupts are enabled, after gdt::init ran to completion.
C10_Witness ==
    /\ main.pc = After("enable")
    /\ cpu.idtr # None
    /\ GatePresent(IdtAt(IDT, VEC_DOUBLE_FAULT))
    /\ cpu.intr
    /\ GdtInitDone

\* Start-up has left gdt::init and interrupts::init behind.
InitDone ==
    /\ \A i \in 1..Len(gdt_init) : main.pc # gdt_init[i]
    /\ \A i \in 1..Len(interrupts_init) : main.pc # interrupts_init[i]

\* C11: whenever interrupts are enabled, and in every state after
\* interrupts::init, the controllers have been remapped (vector bases 0x20
\* and 0x28) and the kernel's IDT of 256 gates is in IDTR; while a statement
\* of gdt::init or interrupts::init is still to run the interrupt flag is
\* clear, so enabling is the last step of init().
C11_EnableIsLastStep ==
    /\ (cpu.intr \/ InitDone) =>
          /\ remapped
          /\ pic.master.offset = W(32)
          /\ pic.slave.offset = W(40)
          /\ cpu.idtr = Some([limit |-> W(IDT_LEN * 16 - 1), base |-> IdtBase])
    /\ ~InitDone => ~cpu.intr
    /\ (main.pc = "enable" /\ hstack = <<>>) => After(main.pc) = "init_paging"

C11_Witness ==
    /\ main.pc = "init_paging"
    /\ cpu.intr
    /\ remapped
    /\ cpu.idtr # None
    /\ 0 \in pic.master.irr

(***************************************************************************)
(* The codecs on their own: gates built by IdtEntry::new and               *)
(* IdtEntry::new_with_ist for any handler address, stack-table index and   *)
(* code selector, and page-table entries written by PageTableEntry::set    *)
(* for any frame address and flags                                         *)
(***************************************************************************)
\* The number of constructor calls in a behaviour.
MaxCodecCalls == 1

\* Handler addresses (usize): zero, a kernel-text address, addresses with
\* bits in one offset field only, a higher-half address, and all ones.
GateHandlers ==
    {{}, KernelText(1), W(43981), Shl(W(43981), 16), Shl(W(43981), 32),
     (47..63) \cup {21, 12}, 0..63}

\* Stack-table arguments (u8): the indices 0..7 and two bytes above them.
GateIsts == {W(n) : n \in 0..7} \cup {W(9), W(255)}

\* Values of CS: the boot loader's selector, the kernel's, and one with a
\* requested privilege level and high bits.
GateSelectors == {W(8), W(16), W(65531)}

\* Frame arguments (u64): page-aligned physical addresses up to the 52-bit
\* limit of the architecture, and addresses that are not page-aligned.
CodecFrames ==
    {{}, Frame(3), {51}, 12..51, {12, 30, 51}, Add(Frame(3), W(1)), 0..51}

\* Flag arguments: every combination of the five flags of paging::flags.
CodecFlags ==
    {BitOr(a, BitOr(b, BitOr(c, BitOr(d, e)))) :
        a \in {{}, PRESENT}, b \in {{}, WRITABLE}, c \in {{}, USER},
        d \in {{}, HUGE_PAGE}, e \in {{}, NO_EXECUTE}}

\* The entry the codec writes: the first of a table in frame 1.
CodecSlot == <<Frame(1), 0>>

InitCodec ==
    /\ AllocIdle
    /\ mem = <<>>
    /\ mapper = None
    /\ panicked = FALSE
    /\ debug_assertions \in BOOLEAN
    /\ op = [name |-> "none", n |-> 0]
    /\ PicIdle
    /\ CpuIdle

\* CS::set_reg(selector): the value CS::get_reg() returns from then on.
CodeSegmentReload ==
    /\ op.n = 0
    /\ \E sel \in GateSelectors : cpu' = [cpu EXCEPT !.cs = sel]
    /\ UNCHANGED <<allocVars, mapVars, picVars, GDT, TSS, IDT, DF_STACK, main,
                   hstack, TRIGGER_DF_ON_PF, console, serial, time, QUEUE,
                   kbd, fired, popped, boot_info,
                   WRITER, history>>

\* IDT[14] = IdtEntry::new(handler)
IdtEntryNewCall ==
    /\ op.n < MaxCodecCalls
    /\ ~panicked
    /\ \E handler \in GateHandlers :
          /\ IDT' = (VEC_PAGE_FAULT :> IdtEntry_new(handler, cpu.cs)) @@ IDT
          /\ op' = [name |-> "new", n |-> op.n + 1, handler |-> handler,
                    ist |-> {}, cs |-> cpu.cs, vector |-> VEC_PAGE_FAULT]
    /\ UNCHANGED <<allocVars, mem, mapper, panicked, debug_assertions, picVars,
                   cpu, GDT, TSS, DF_STACK, main, hstack, TRIGGER_DF_ON_PF,
                   console, serial, time, QUEUE, kbd, fired, popped, boot_info,
                   WRITER, history>>

\* IDT[8] = IdtEntry::new_with_ist(handler, ist)
IdtEntryNewWithIstCall ==
    /\ op.n < MaxCodecCalls
    /\ ~panicked
    /\ \E handler \in GateHandlers, ist \in GateIsts :
          /\ IDT' = (VEC_DOUBLE_FAULT :>
                         IdtEntry_new_with_ist(handler, ist, cpu.cs)) @@ IDT
          /\ op' = [name |-> "new_with_ist", n |-> op.n + 1,
                    handler |-> handler, ist |-> ist, cs |-> cpu.cs,
                    vector |-> VEC_DOUBLE_FAULT]
    /\ UNCHANGED <<allocVars, mem, mapper, panicked, debug_assertions, picVars,
                   cpu, GDT, TSS, DF_STACK, main, hstack, TRIGGER_DF_ON_PF,
                   console, serial, time, QUEUE, kbd, fired, popped, boot_info,
                   WRITER, history>>

\* entry.set(frame, flags) on one entry of a page table; the debug
\* assertion on the alignment panics before anything is stored.
EntrySetCall ==
    /\ op.n < MaxCodecCalls
    /\ ~panicked
    /\ \E frame \in CodecFrames, flags \in CodecFlags :
          /\ panicked' = set_assert_fails(frame)
          /\ mem' = IF set_assert_fails(frame) THEN mem
                    ELSE (CodecSlot :> PageTableEntry_set(frame, flags)) @@ mem
          /\ op' = [name |-> "set", n |-> op.n + 1, frame |-> frame,
                    flags |-> flags]
    /\ UNCHANGED <<allocVars, mapper, debug_assertions, picVars, cpuVars>>

NextCodec ==
    \/ CodeSegmentReload
    \/ IdtEntryNewCall
    \/ IdtEntryNewWithIstCall
    \/ EntrySetCall

SpecCodec == InitCodec /\ [][NextCodec]_vars

(***************************************************************************)
(* Claims about the codecs                                                 *)
(***************************************************************************)
\* C12: the gate IdtEntry::new_with_ist builds from a handler address, the
\* selector in CS and a stack-table index 0..7 decodes back to them:
\* offset_low | offset_mid << 16 | offset_high << 32 is the address, the
\* selector field is the selector, options & 7 is the index, the rest of
\* options is 0x8E00 and the reserved field is 0.
C12_GateRoundTrip ==
    (op.name = "new_with_ist" /\ N(op.ist) <= 7) =>
        LET e == IDT[op.vector]
        IN  /\ BitOr(e.offset_low,
                     BitOr(Shl(e.offset_mid, 16), Shl(e.offset_high, 32)))
                  = op.handler
            /\ e.selector = op.cs
            /\ BitAnd(e.options, W(7)) = op.ist
            /\ BitAnd(e.options, AsU16(BitNot(W(7)))) = W(36352)
            /\ e.reserved = {}

C12_Witness ==
    /\ op.name = "new_with_ist"
    /\ op.ist = W(5)
    /\ op.handler = (47..63) \cup {21, 12}
    /\ op.cs = W(16)
    /\ GateIst(IDT[VEC_DOUBLE_FAULT]) = 5
    /\ GateOffset(IDT[VEC_DOUBLE_FAULT]) = op.handler

\* C13: PageTableEntry::set(frame, flags) with a page-aligned frame address
\* (a physical address, below 2^52) and any combination of the five flags
\* stores an entry whose addr() is the frame and whose bits outside the
\* address field are the flags; the addr() of every stored entry is a
\* multiple of 4096.
C13_EntryRoundTrip ==
    /\ (op.name = "set" /\ ~panicked /\ BitAnd(op.frame, OffsetMask) = {}) =>
          /\ PageTableEntry_addr(mem[CodecSlot]) = op.frame
          /\ BitAnd(mem[CodecSlot], BitNot(ADDRESS_MASK)) = op.flags
    /\ \A slot \in DOMAIN mem :
          BitAnd(PageTableEntry_addr(mem[slot]), W(FRAME_SIZE - 1)) = {}

C13_Witness ==
    /\ op.name = "set"
    /\ op.frame = {12, 30, 51}
    /\ op.flags = BitOr(PRESENT, BitOr(HUGE_PAGE, NO_EXECUTE))
    /\ mem[CodecSlot] = {0, 7, 12, 30, 51, 63}

\* The handlers that end in a loop, and those that end in a return.
TerminalHandlers ==
    {"page_fault_handler", "gpf_handler", "double_fault_handler"}

ResumableHandlers ==
    {"breakpoint_handler", "timer_interrupt_handler",
     "keyboard_interrupt_handler"}

\* C14: a handler of a page fault, a general-protection fault or a double
\* fault never returns, and the interrupted context takes no further step
\* once it runs; a handler that returns is the breakpoint, timer or
\* keyboard handler, it has run to its end, and the interrupted context
\* resumes where it was with its interrupt flag; every handler entered is
\* of one of the two kinds; and a breakpoint, timer or keyboard handler
\* that is entered does return: nothing interrupts it, it is never at a
\* halt or in a loop, and each of its steps takes it one statement closer
\* to its return.
C14_ResumableOrTerminal ==
    [][/\ \A i \in 1..Len(hstack) :
             hstack[i].handler \in TerminalHandlers =>
                 /\ Len(hstack') >= i
                 /\ hstack'[i].handler = hstack[i].handler
                 /\ main' = main
       /\ Len(hstack') < Len(hstack) =>
             /\ Top(K).handler \in ResumableHandlers
             /\ Top(K).at = Len(Body(Top(K).handler)) + 1
             /\ hstack' = SubSeq(hstack, 1, Len(hstack) - 1)
             /\ main' = main
             /\ cpu'.intr = Top(K).saved_if
       /\ \A i \in 1..Len(hstack') :
             hstack'[i].handler \in TerminalHandlers \cup ResumableHandlers
       /\ (hstack # <<>> /\ Top(K).handler \in ResumableHandlers) =>
             /\ Len(hstack) = 1
             /\ ~cpu.halted /\ ~cpu.reset /\ ~cpu.intr
             /\ Top(K).at <= Len(Body(Top(K).handler)) =>
                   Body(Top(K).handler)[Top(K).at].op
                       \notin {"spin_loop", "hlt_loop"}
             /\ hstack' # hstack =>
                   \/ hstack' = <<>>
                   \/ /\ Len(hstack') = 1
                      /\ hstack'[1].handler = hstack[1].handler
                      /\ hstack'[1].at = hstack[1].at + 1
                      /\ hstack'[1].at <= Len(Body(hstack[1].handler)) + 1]_vars

C14_Witness ==
    /\ Len(hstack) = 2
    /\ hstack[2].handler = "page_fault_handler"
    /\ Body("page_fault_handler")[hstack[2].at].op = "spin_loop"
    /\ time.TICKS > 0
    /\ Len(popped) > 0
    /\ \E i \in 1..Len(console) : console[i].text = "EXCEPTION: BREAKPOINT"

\* IRQ line n (0..15) can reach the processor: it is unmasked, and for a
\* line of the slave so is the cascade line of the master.
Unmasked(p, n) ==
    IF n < 8 THEN n \notin p.master.imr
    ELSE (n - 8) \notin p.slave.imr /\ CASCADE_LINE \notin p.master.imr

\* The vector the controllers supply for line n.
VectorOf(p, n) ==
    IF n < 8 THEN N(BitOr(p.master.offset, W(n)))
    ELSE N(BitOr(p.slave.offset, W(n - 8)))

\* C15: after interrupts::init every vector the controllers can deliver on
\* an unmasked line has a present gate, and no handler runs because an
\* interrupt was dispatched to a slot whose present bit is clear (the
\* general-protection fault that names the slot in its error code).
C15_NoDispatchToAbsentGate ==
    /\ InitDone =>
          \A n \in 0..15 :
              Unmasked(pic, n) => GatePresent(IdtAt(IDT, VectorOf(pic, n)))
    /\ \A i \in 1..Len(hstack) :
          \A v \in 0..(IDT_LEN - 1) :
              (hstack[i].vector = VEC_GENERAL_PROTECTION
                   /\ hstack[i].error_code = W(v * 8 + 2)) =>
                  GatePresent(IdtAt(IDT, v))

\* The pages init_paging maps: those below KERNEL_MAP_LIMIT and the two of
\* the VGA text buffer, 0xB8000 and 0xB9000.
InitPagingPages ==
    {Frame(i) : i \in 0..(MaxPages - 1)} \cup {W(753664), W(757760)}

\* C16: when allocate_frame returns None to map_page in init_paging, the
\* kernel stops there for good: the main context stays in init_paging (no
\* serial set-up, no timer programming, no shell), the leaf of the page
\* being mapped is not installed, and no page of the ranges after it is
\* mapped.
C16_ExhaustionStopsStartup ==
    (returned # <<>> /\ returned[Len(returned)] = None) =>
        /\ panicked
        /\ main.pc = "init_paging"
        /\ time.HZ = 18
        /\ \A i \in 1..Len(console) : console[i].text # "banner"
        /\ \A p \in InitPagingPages : ~LeafPresent(mem, BootPml4, p)

C16_Witness ==
    /\ returned = <<Some(Frame(FirstFree)), None>>
    /\ ReadEntry(mem, BootPml4, 0) = PageTableEntry_set(Frame(FirstFree), TableFlags)
    /\ panicked
    /\ main.pc = "init_paging"
    /\ time.TICKS > 0

\* The table indices of the PDPT, the PD and the PT on the walk for virt.
TablePaths(virt) ==
    {<<pml4_index(virt)>>,
     <<pml4_index(virt), pdpt_index(virt)>>,
     <<pml4_index(virt), pdpt_index(virt), pd_index(virt)>>}

\* Every entry on the way from table along indices is present.
RECURSIVE PathPresent(_, _, _)
PathPresent(m, table, indices) ==
    \/ indices = <<>>
    \/ /\ ~is_unused(ReadEntry(m, table, Head(indices)))
       /\ PathPresent(m, PageTableEntry_addr(ReadEntry(m, table, Head(indices))),
                      Tail(indices))

\* The pages from addr up to end.
RECURSIVE RangePages(_, _)
RangePages(addr, end) ==
    IF Lt(addr, end)
    THEN {addr} \cup RangePages(Add(addr, FrameSizeWord), end)
    ELSE {}

\* The pages a recorded call asked for.
OpPages(o) ==
    IF o.name = "map_page" THEN {o.virt}
    ELSE RangePages(BitAnd(o.start, FrameMask), align_up(o.end))

\* The intermediate tables that the walks for the pages need and that
\* memory m does not have.
AbsentTables(m, root, pages) ==
    {path \in UNION {TablePaths(p) : p \in pages} : ~PathPresent(m, root, path)}

\* C17: a call of map_page or identity_map_range that the allocator serves
\* takes as many frames as there are intermediate tables (PDPT, PD, PT)
\* absent on the walks of its pages, and no more: 3 for each PML4 slot of an
\* empty root, none for a page under a path that is built.
C17_FramesEqualAbsentTables ==
    [][(/\ op'.n = op.n + 1
        /\ op'.name \in {"map_page", "identity_map_range"}
        /\ \A i \in 1..Len(returned') : returned'[i] # None)
        => /\ Len(returned') - Len(returned)
                 = Cardinality(AbsentTables(mem, mapper.pml4_phys, OpPages(op')))
           /\ (DOMAIN mem \cap {<<mapper.pml4_phys, i>> : i \in 0..(ENTRIES_PER_TABLE - 1)} = {}) =>
                 Len(returned') =
                     3 * Cardinality({pml4_index(p) : p \in OpPages(op')})]_vars

\* On an empty root, the range of two pages on either side of the boundary
\* of PML4 slots 0 and 1 took six frames, and a further page under slot 1
\* took none.
C17_Witness ==
    /\ op.name = "map_page"
    /\ op.n = 2
    /\ op.virt = Virt(1, 0, 0, 1)
    /\ ~panicked
    /\ Len(returned) = 6
    /\ \A i \in 1..6 : returned[i] = Some(Frame(FirstFree + i - 1))
    /\ ReadEntry(mem, mapper.pml4_phys, 0) = PageTableEntry_set(Frame(FirstFree), TableFlags)
    /\ ReadEntry(mem, mapper.pml4_phys, 1) = PageTableEntry_set(Frame(FirstFree + 3), TableFlags)
    /\ LeafPresent(mem, mapper.pml4_phys, op.virt)

\* The frames that are page tables of the hierarchy under table, a table
\* of the given level (4 for a PML4, 1 for a PT): the tables that present
\* entries point to; an entry of a PDPT or a PD with the huge-page flag
\* points to a page.
RECURSIVE HierarchyTables(_, _, _)
HierarchyTables(m, table, level) ==
    {table} \cup
        (IF level = 1 THEN {}
         ELSE UNION {HierarchyTables(m, PageTableEntry_addr(m[k]), level - 1) :
                        k \in {x \in DOMAIN m :
                                  /\ x[1] = table
                                  /\ ~is_unused(m[x])
                                  /\ ~(level \in {2, 3}
                                         /\ BitAnd(m[x], HUGE_PAGE) # {})}})

\* The words of memory a step changes.
ChangedWords ==
    {k \in DOMAIN mem \cup DOMAIN mem' :
        ReadEntry(mem, k[1], k[2]) # ReadEntry(mem', k[1], k[2])}

\* C18: a mapping call on a hierarchy of page tables changes no entry of
\* the hierarchy that was present before the call, at any level and with
\* or without the huge-page flag, and changes no word of a frame that is
\* not a page table of the hierarchy after the call.
C18_InheritedMappingsKept ==
    [][(op'.n = op.n + 1 /\ op'.name \in {"map_page", "identity_map_range"})
        => /\ \A k \in ChangedWords :
                 k[1] \in HierarchyTables(mem, mapper.pml4_phys, 4) =>
                     is_unused(ReadEntry(mem, k[1], k[2]))
           /\ \A k \in ChangedWords :
                 k[1] \in HierarchyTables(mem', mapper.pml4_phys, 4)]_vars

\* The handlers of the processor's exceptions, and the first line of the
\* report each of them prints.
ExceptionHandlers == TerminalHandlers \cup {"breakpoint_handler"}

ReportOf(h) ==
    CASE h = "breakpoint_handler" -> "EXCEPTION: BREAKPOINT"
      [] h = "page_fault_handler" -> "EXCEPTION: PAGE FAULT"
      [] h = "gpf_handler" -> "EXCEPTION: GENERAL PROTECTION FAULT"
      [] h = "double_fault_handler" -> "EXCEPTION: DOUBLE FAULT"

\* The frame f is at the handler's return or at its final loop.
AtEnd(f) ==
    \/ f.at = Len(Body(f.handler)) + 1
    \/ Body(f.handler)[f.at].op \in {"spin_loop", "hlt_loop"}

\* C19: when the handler of a breakpoint, a page fault, a
\* general-protection fault or a double fault comes to its return or to
\* its final loop, its report is on the console and on the serial line.
C19_ReportOnConsoleAndSerial ==
    \A i \in 1..Len(hstack) :
        (hstack[i].handler \in ExceptionHandlers /\ AtEnd(hstack[i])) =>
            /\ \E j \in 1..Len(console) :
                  console[j].text = ReportOf(hstack[i].handler)
            /\ \E j \in 1..Len(serial) :
                  serial[j] = ReportOf(hstack[i].handler)

\* C20: every terminal failure has written diagnostic text to the console
\* or to the serial line by the time the kernel is at its final halt or
\* loop: a panic (frame exhaustion in init_paging, a failed assertion) the
\* text of the panic handler, a fatal exception the report of its handler.
C20_DiagnosticsBeforeHalt ==
    /\ panicked =>
          \/ \E j \in 1..Len(console) : console[j].text = "KERNEL PANIC"
          \/ \E j \in 1..Len(serial) : serial[j] = "KERNEL PANIC"
    /\ \A i \in 1..Len(hstack) :
          (hstack[i].handler \in TerminalHandlers /\ AtEnd(hstack[i])) =>
              \/ \E j \in 1..Len(console) :
                    console[j].text = ReportOf(hstack[i].handler)
              \/ \E j \in 1..Len(serial) :
                    serial[j] = ReportOf(hstack[i].handler)

\* What the port writes of the kernel set in the controllers: the vector
\* bases, the masks and the initialization words; an end-of-interrupt
\* command clears a line in service.
PicPortState(p) ==
    [c \in {"master", "slave"} |->
        <<p[c].step, p[c].ic4, p[c].offset, p[c].imr, p[c].icw3, p[c].icw4>>]

PicWritten ==
    \/ PicPortState(pic') # PicPortState(pic)
    \/ \E c \in {"master", "slave"} : ~(pic[c].isr \subseteq pic'[c].isr)

\* C21: every step that writes the IDT, the GDT, the TSS, a page table or
\* the state of the controllers behind their ports is taken with the
\* interrupt flag clear: during start-up before interrupts are enabled, or
\* inside a handler entered through an interrupt gate.
C21_WritesOnlyWithInterruptsOff ==
    [][(IDT' # IDT \/ GDT' # GDT \/ TSS' # TSS \/ mem' # mem \/ PicWritten)
        => ~cpu.intr]_vars


\* The handlers of the two hardware interrupts.
IrqHandlers == {"timer_interrupt_handler", "keyboard_interrupt_handler"}

\* C22: while a handler runs the interrupt flag is clear, since every gate
\* is an interrupt gate, and no step starts the timer or the keyboard
\* handler; once a handler of a page fault, a general-protection fault or
\* a double fault has been entered, neither of the two runs again: the
\* tick counter and the scancode queue keep their values.
C22_HandlersNotReentered ==
    [][/\ hstack # <<>> =>
             /\ ~cpu.intr
             /\ Len(hstack') > Len(hstack) =>
                   hstack'[Len(hstack')].handler \notin IrqHandlers
       /\ (\E i \in 1..Len(hstack) : hstack[i].handler \in TerminalHandlers) =>
             /\ time'.TICKS = time.TICKS
             /\ QUEUE' = QUEUE
             /\ \A i \in 1..Len(hstack') :
                   hstack'[i].handler \notin IrqHandlers]_vars

\* A timer request and a keyboard request wait at the controller, both
\* unmasked, while a fatal handler has come to rest after the timer and
\* the keyboard handler ran earlier.
C22_Witness ==
    /\ AtRest
    /\ Top(K).handler \in TerminalHandlers
    /\ {0, 1} \subseteq MasterRequests(pic)
    /\ time.TICKS > 0
    /\ QUEUE.len + Len(popped) > 0


\* The main context has left gdt::init.
AfterGdtInit == main.pc \notin {gdt_init[i] : i \in DOMAIN gdt_init}

\* C23: after gdt::init slot 0 of the interrupt stack table holds the
\* address DF_STACK_SIZE = 5 * 4096 bytes above the base of DF_STACK, the
\* address just past the highest byte of the buffer, and the slots 1..6
\* are zero: one slot of the seven is populated.
C23_OneIstSlot ==
    AfterGdtInit =>
        /\ DOMAIN TSS.interrupt_stack_table = 0..6
        /\ N(TSS.interrupt_stack_table[0]) = N(DF_STACK) + 5 * 4096
        /\ \A i \in 1..6 : TSS.interrupt_stack_table[i] = {}
        /\ Cardinality({i \in 0..6 : TSS.interrupt_stack_table[i] # {}}) = 1

C23_Witness ==
    /\ AfterGdtInit
    /\ DF_STACK = W(2113536)
    /\ TSS.interrupt_stack_table[0] = W(2134016)
    /\ cpu.tr = Some(main.tss_selector)


\* C24: the stack pointer gdt::init stores in the interrupt stack table is
\* a multiple of 16, wherever the buffer DF_STACK was placed.
C24_IstPointerAligned ==
    AfterGdtInit =>
        BitAnd(TSS.interrupt_stack_table[DOUBLE_FAULT_IST_INDEX], W(15)) = {}


\* C25: after interrupts::init the gate of vector 8 has stack-table index
\* 1, which selects slot 0 of the TSS, the slot gdt::init filled; every
\* other slot of the IDT has index 0, and the handlers entered through
\* those gates run on the stack that was current.
C25_OnlyDoubleFaultUsesIst ==
    InitDone =>
        /\ GateIst(IdtAt(IDT, VEC_DOUBLE_FAULT)) = 1
        /\ GateIst(IdtAt(IDT, VEC_DOUBLE_FAULT)) - 1 = DOUBLE_FAULT_IST_INDEX
        /\ TSS.interrupt_stack_table[GateIst(IdtAt(IDT, VEC_DOUBLE_FAULT)) - 1]
               = stack_end(DF_STACK)
        /\ TSS.interrupt_stack_table[GateIst(IdtAt(IDT, VEC_DOUBLE_FAULT)) - 1] # {}
        /\ \A v \in 0..(IDT_LEN - 1) \ {VEC_DOUBLE_FAULT} :
              GateIst(IdtAt(IDT, v)) = 0
        /\ \A i \in 1..Len(hstack) :
              hstack[i].vector # VEC_DOUBLE_FAULT =>
                  hstack[i].stack = [ist |-> 0, top |-> {}]

C25_Witness ==
    /\ InitDone
    /\ GatePresent(IdtAt(IDT, VEC_DOUBLE_FAULT))
    /\ GateIst(IdtAt(IDT, VEC_DOUBLE_FAULT)) = 1
    /\ Cardinality({v \in 0..(IDT_LEN - 1) : GatePresent(IdtAt(IDT, v))}) = 6
    /\ hstack # <<>>
    /\ Top(K).vector = VEC_PAGE_FAULT


\* C26: a call of new_with_ist with a stack-table index above 7 fails an
\* assertion and leaves no gate, a call of PageTableEntry::set with a frame
\* address that is not a multiple of 4096 fails an assertion and stores
\* nothing, and every other call of the codec produces its encoding
\* without a panic.
C26_TwoAssertions ==
    /\ (op.name = "new_with_ist" /\ N(op.ist) > 7) =>
           panicked /\ op.vector \notin DOMAIN IDT
    /\ (op.name = "set" /\ BitAnd(op.frame, OffsetMask) # {}) =>
           panicked /\ CodecSlot \notin DOMAIN mem
    /\ (op.name = "new_with_ist" /\ N(op.ist) <= 7) =>
           ~panicked /\ op.vector \in DOMAIN IDT
    /\ op.name = "new" => ~panicked /\ op.vector \in DOMAIN IDT
    /\ (op.name = "set" /\ BitAnd(op.frame, OffsetMask) = {}) =>
           ~panicked /\ CodecSlot \in DOMAIN mem


\* The tables of the hierarchy under root at the given level (4 for the
\* PML4 itself, 1 for the PTs).
TablesAt(m, root, level) ==
    LET Below(tables, l) ==
            {PageTableEntry_addr(m[k]) :
                k \in {x \in DOMAIN m :
                          /\ x[1] \in tables
                          /\ ~is_unused(m[x])
                          /\ ~(l \in {2, 3} /\ BitAnd(m[x], HUGE_PAGE) # {})}}
        t3 == Below({root}, 4)
        t2 == Below(t3, 3)
    IN  CASE level = 4 -> {root}
          [] level = 3 -> t3
          [] level = 2 -> t2
          [] OTHER -> Below(t2, 2)

\* The present entries of the PML4, the PDPTs and the PDs of the hierarchy
\* that point to a table.
TableRefs(m, root) ==
    {k \in DOMAIN m :
        /\ ~is_unused(m[k])
        /\ \E level \in 2..4 :
              /\ k[1] \in TablesAt(m, root, level)
              /\ ~(level \in {2, 3} /\ BitAnd(m[k], HUGE_PAGE) # {})}

\* The frames the mapper took from the allocator.
InstalledFrames == {Unwrap(returned[i]) : i \in {j \in 1..Len(returned) : IsSome(returned[j])}}

\* C27: after any calls of map_page and identity_map_range every frame
\* the mapper installed as a table is the target of exactly one present
\* entry of the upper three levels, no such entry points to the root, a
\* frame is a table of one level only, and no table lies in the hierarchy
\* below itself.
C27_TablesFormTree ==
    LET root == mapper.pml4_phys
        refs == TableRefs(mem, root)
    IN  /\ \A f \in InstalledFrames :
              Cardinality({k \in refs : PageTableEntry_addr(mem[k]) = f}) = 1
        /\ \A k \in refs : PageTableEntry_addr(mem[k]) # root
        /\ \A a, b \in 1..4 :
              a # b => TablesAt(mem, root, a) \cap TablesAt(mem, root, b)
                          \cap (InstalledFrames \cup {root}) = {}
        /\ \A k \in refs :
              k[1] \notin UNION {HierarchyTables(mem, PageTableEntry_addr(mem[k]), level - 1) :
                                    level \in {l \in 2..4 : k[1] \in TablesAt(mem, root, l)}}

\* On a root zeroed by Mapper::new, two calls have installed six tables:
\* a PDPT, a PD and a PT under each of the PML4 slots 0 and 1.
C27_Witness ==
    /\ Cardinality(InstalledFrames) = 6
    /\ InstalledFrames \subseteq HierarchyTables(mem, mapper.pml4_phys, 4)
    /\ Cardinality(HierarchyTables(mem, mapper.pml4_phys, 4)) = 7
    /\ op.n = 2
    /\ ~panicked


\* The memory before the recorded call and after each of its writes.
CallSnapshots ==
    <<mem>> \o
        (IF op'.name = "map_page"
         THEN map_page(WalkState, mapper.pml4_phys, op'.virt, op'.phys,
                       op'.flags).writes
         ELSE identity_map_range(WalkState, mapper.pml4_phys, op'.start,
                                 op'.end, op'.flags).writes)

\* The entries of the PML4, the PDPTs and the PDs of the hierarchy in m.
UpperEntries(m, root) ==
    {k \in DOMAIN m : \E level \in 2..4 : k[1] \in TablesAt(m, root, level)}

\* Between two writes: an upper-level entry that was present keeps its
\* word; one that becomes present holds frame | PRESENT | WRITABLE for a
\* frame the allocator returned in this call, and every entry of that frame
\* is zero at that moment.
WriteOk(a, b, root, fresh) ==
    \A before \in {UpperEntries(a, root)}, after \in {UpperEntries(b, root)} :
        \A k \in before \cup after :
            LET was == ReadEntry(a, k[1], k[2])
                now == ReadEntry(b, k[1], k[2])
            IN  /\ (k \in before /\ ~is_unused(was)) => now = was
                /\ (is_unused(was) /\ ~is_unused(now)) =>
                      /\ PageTableEntry_addr(now) \in fresh
                      /\ now = BitOr(PageTableEntry_addr(now),
                                    BitOr(PRESENT, WRITABLE))
                      /\ \A x \in DOMAIN b : x[1] # PageTableEntry_addr(now)

\* C28: in every call, between any two consecutive writes of the walk, an
\* upper-level entry that is present stays as it is, and an upper-level
\* entry that becomes present points to a frame taken from the allocator
\* in this call, with the flags PRESENT | WRITABLE, whose 512 entries are
\* all zero when the entry appears: the table is zeroed before it is
\* linked.  The last write leaves the memory the call returns with.
C28_ZeroedBeforeLinked ==
    [][op'.n = op.n + 1 =>
          \A snaps \in {CallSnapshots} :
          \A fresh \in {{Unwrap(returned'[i]) :
                            i \in {j \in (Len(returned) + 1)..Len(returned') :
                                      IsSome(returned'[j])}}} :
              /\ snaps[Len(snaps)] = mem'
              /\ \A i \in 1..(Len(snaps) - 1) :
                    WriteOk(snaps[i], snaps[i + 1], mapper.pml4_phys, fresh)]_vars

\* A map_page call for a page under PML4 slot 1 installed three tables on
\* free frames that held stale words; the first of them now holds the one
\* entry the walk put there.
C28_Witness ==
    /\ op.name = "map_page"
    /\ op.virt = Virt(1, 0, 0, 1)
    /\ InstalledFrames = {Frame(FirstFree), Frame(FirstFree + 1), Frame(FirstFree + 2)}
    /\ ReadEntry(mem, mapper.pml4_phys, 1) = BitOr(Frame(FirstFree), TableFlags)
    /\ {k \in DOMAIN mem : k[1] = Frame(FirstFree)} = {<<Frame(FirstFree), 0>>}
    /\ LeafPresent(mem, mapper.pml4_phys, op.virt)


\* The nine bits lo .. lo + 8 of an address, as a number.
Field(addr, lo) == N({b - lo : b \in addr \cap lo..(lo + 8)})

\* The leaf entry (table and index) that a walk for virt by the bit fields
\* of the address reaches in memory m: PML4 entry by bits 39..47, PDPT
\* entry by bits 30..38, PD entry by bits 21..29, each followed when it is
\* present, and the index in the PT by bits 12..20.
SlotOf(m, root, virt) ==
    LET Step(t, lo) ==
            IF t = None THEN None
            ELSE LET e == ReadEntry(m, Unwrap(t), Field(virt, lo))
                 IN  IF 0 \in e THEN Some(e \cap 12..51) ELSE None
        pt == Step(Step(Step(Some(root), 39), 30), 21)
    IN  IF pt = None THEN None ELSE Some(<<Unwrap(pt), Field(virt, 12)>>)

\* Addresses to compare walks for: one page, the same page with other
\* offset bits and with other bits above bit 47, and pages that differ
\* from it in one index each; and the page with all four indices 511.
ProbeVirts ==
    {Virt(0, 0, 0, 1), BitOr(Virt(0, 0, 0, 1), OffsetMask),
     BitOr(Virt(0, 0, 0, 1), {48, 63}), Virt(0, 0, 0, 2), Virt(0, 0, 1, 1),
     Virt(0, 1, 0, 1), Virt(1, 0, 0, 1), Virt(511, 511, 511, 511)}

\* C29: the indices map_page uses are the bit fields 39..47, 30..38, 21..29
\* and 12..20 of the address, each in 0..511; after a call the walk by
\* those fields from the root, in that order, ends at the leaf entry the
\* call wrote or found present; and a further call for another address ends at
\* the same leaf entry exactly when the two addresses have the same bits
\* 12..47.
C29_IndicesFromAddressBits ==
    (op.name = "map_page" /\ ~panicked) =>
        LET root == mapper.pml4_phys
            slot == SlotOf(mem, root, op.virt)
        IN  /\ pml4_index(op.virt) = Field(op.virt, 39)
            /\ pdpt_index(op.virt) = Field(op.virt, 30)
            /\ pd_index(op.virt) = Field(op.virt, 21)
            /\ pt_index(op.virt) = Field(op.virt, 12)
            /\ {pml4_index(op.virt), pdpt_index(op.virt), pd_index(op.virt),
                pt_index(op.virt)} \subseteq 0..(ENTRIES_PER_TABLE - 1)
            /\ slot # None
            /\ LET entry == ReadEntry(mem, Unwrap(slot)[1], Unwrap(slot)[2])
               IN  IF is_unused(op.leaf_was)
                   THEN \/ entry = PageTableEntry_set(op.phys, op.flags)
                        \/ ~is_unused(entry)
                   ELSE entry = op.leaf_was
            /\ \A p \in ProbeVirts :
                  LET st == map_page(WalkState, root, p, Frame(5), TableFlags)
                  IN  ~st.panicked =>
                         /\ SlotOf(st.mem, root, p) # None
                         /\ SlotOf(st.mem, root, op.virt) = slot
                         /\ (SlotOf(st.mem, root, p) = slot)
                               <=> (p \cap 12..47 = op.virt \cap 12..47)

\* A page under PML4 slot 1 was mapped on a zeroed root; a further call for
\* the page with all indices 511 can still be served.
C29_Witness ==
    /\ op.name = "map_page"
    /\ ~panicked
    /\ op.virt = Virt(1, 0, 0, 1)
    /\ SlotOf(mem, mapper.pml4_phys, op.virt) = Some(<<Frame(FirstFree + 2), 1>>)
    /\ ~map_page(WalkState, mapper.pml4_phys, Virt(511, 511, 511, 511),
                 Frame(5), TableFlags).panicked


\* The handler interrupts::init installs at each of its six vectors.
InstalledHandlers ==
    (InterruptIndex_Breakpoint :> "breakpoint_handler")
    @@ (VEC_DOUBLE_FAULT :> "double_fault_handler")
    @@ (VEC_GENERAL_PROTECTION :> "gpf_handler")
    @@ (VEC_PAGE_FAULT :> "page_fault_handler")
    @@ (InterruptIndex_Timer :> "timer_interrupt_handler")
    @@ (InterruptIndex_Keyboard :> "keyboard_interrupt_handler")

\* C30: after interrupts::init the IDT has 256 slots and IDTR holds the
\* address of the table and the limit 256 * 16 - 1 = 4095; the vectors 3,
\* 8, 13, 14, 0x20 and 0x21 hold present gates whose offsets are the
\* addresses of their handlers, and the other 250 slots are all zero.
C30_IdtLayout ==
    InitDone =>
        /\ IDT_LEN = 256
        /\ DOMAIN IDT \subseteq 0..(IDT_LEN - 1)
        /\ cpu.idtr # None
        /\ Unwrap(cpu.idtr).base = IdtBase
        /\ N(Unwrap(cpu.idtr).limit) = 4095
        /\ DOMAIN InstalledHandlers = {3, 8, 13, 14, 32, 33}
        /\ \A v \in DOMAIN InstalledHandlers :
              /\ GatePresent(IdtAt(IDT, v))
              /\ GateOffset(IdtAt(IDT, v)) = HandlerAddr[InstalledHandlers[v]]
        /\ \A v \in 0..(IDT_LEN - 1) \ DOMAIN InstalledHandlers :
              \A field \in DOMAIN IdtAt(IDT, v) : IdtAt(IDT, v)[field] = {}
        /\ Cardinality({v \in 0..(IDT_LEN - 1) :
                           IdtAt(IDT, v) = IdtEntry_missing}) = 250

\* The keyboard handler runs, entered through the gate of vector 0x21.
C30_Witness ==
    /\ InitDone
    /\ hstack # <<>>
    /\ Top(K).vector = InterruptIndex_Keyboard
    /\ Top(K).handler = "keyboard_interrupt_handler"
    /\ GateOffset(IdtAt(IDT, InterruptIndex_Keyboard)) = KernelText(3)
    /\ IdtAt(IDT, 34) = IdtEntry_missing


\* The hierarchy holds no table but the root and the frames the mapper
\* installed: it was created by Mapper::new.
FreshHierarchy ==
    HierarchyTables(mem, mapper.pml4_phys, 4) \subseteq InstalledFrames \cup {mapper.pml4_phys}

\* C31: after one identity_map_range(start, end, flags) on a hierarchy made
\* by Mapper::new that the allocator could serve, every page from start
\* rounded down to end rounded up has a leaf entry with the page's own
\* address and exactly the requested flags, and the page tables hold no
\* other leaf entry.
C31_IdentityRangeMapped ==
    (op.name = "identity_map_range" /\ op.n = 1 /\ ~panicked /\ FreshHierarchy) =>
        LET root == mapper.pml4_phys
            pages == RangePages(BitAnd(op.start, FrameMask), align_up(op.end))
        IN  /\ \A a \in pages :
                  LET slot == SlotOf(mem, root, a)
                      entry == ReadEntry(mem, Unwrap(slot)[1], Unwrap(slot)[2])
                  IN  /\ slot # None
                      /\ entry \cap 12..51 = a
                      /\ entry \ (12..51) = op.flags
            /\ Cardinality({k \in DOMAIN mem : k[1] \in TablesAt(mem, root, 1)})
                  = Cardinality(pages)

\* The range 0x1800..0x2800, with both ends inside a page, was mapped on a
\* zeroed root: the pages 0x1000 and 0x2000 have their leaves.
C31_Witness ==
    /\ op.name = "identity_map_range"
    /\ op.n = 1
    /\ ~panicked
    /\ FreshHierarchy
    /\ op.start = W(FRAME_SIZE + 2048)
    /\ op.flags = BitOr(PRESENT, BitOr(USER, NO_EXECUTE))
    /\ LeafEntry(mem, mapper.pml4_phys, Frame(MaxPages)) = BitOr(Frame(MaxPages), op.flags)


\* The frames of page-fault handlers on the handler stack.
PageFaultFrames(h) == {i \in 1..Len(h) : h[i].handler = "page_fault_handler"}

\* C32: the page-fault handler reads and clears TRIGGER_DF_ON_PF in one
\* step; a fault is raised inside a running page-fault handler only by the
\* handler that read the flag armed, with the flag already clear; a handler
\* that read it unarmed goes on to its final loop; and for each arming at
\* most one handler reads the flag armed, so at most one page-fault handler
\* is ever nested in another.
C32_HookIsOneShot ==
    [][/\ (hstack # <<>> /\ hstack' # hstack /\ Len(hstack') = Len(hstack)
             /\ Body(Top(K).handler)[Top(K).at].op = "swap_trigger") =>
             /\ hstack'[Len(hstack')].armed = TRIGGER_DF_ON_PF
             /\ TRIGGER_DF_ON_PF' = FALSE
       /\ (hstack # <<>> /\ Top(K).handler = "page_fault_handler"
             /\ Len(hstack') > Len(hstack)) =>
             /\ Top(K).armed
             /\ ~TRIGGER_DF_ON_PF
             /\ Body(Top(K).handler)[Top(K).at].op = "read_if_armed"
       /\ (hstack # <<>> /\ Top(K).handler = "page_fault_handler"
             /\ ~Top(K).armed
             /\ Body(Top(K).handler)[Top(K).at].op = "read_if_armed") =>
             (hstack' # hstack =>
                 /\ Len(hstack') = Len(hstack)
                 /\ Body(Top(K).handler)[hstack'[Len(hstack')].at].op = "spin_loop")
       /\ Cardinality({i \in 1..Len(hstack') : hstack'[i].armed}) <= fired'.trigger
       /\ Cardinality(PageFaultFrames(hstack')) <= fired'.trigger + 1
       /\ Len(hstack') <= fired'.trigger + 1]_vars

\* The nested page-fault handler, entered with the flag clear, has written
\* its report and spins in its final loop under the handler that read the
\* flag armed.
C32_Witness ==
    /\ Len(hstack) = 2
    /\ hstack[1].handler = "page_fault_handler" /\ hstack[1].armed
    /\ hstack[2].handler = "page_fault_handler" /\ ~hstack[2].armed
    /\ Body("page_fault_handler")[hstack[2].at].op = "spin_loop"
    /\ ~TRIGGER_DF_ON_PF
    /\ ~cpu.reset


\* C33: after start-up the selector in every present gate of the IDT is the
\* selector gdt::init loaded into CS, the one append returned for the
\* kernel code segment, and it names a code segment of the table in GDTR.
C33_GateSelectorsAreKernelCode ==
    InitDone =>
        \A v \in 0..(IDT_LEN - 1) :
            GatePresent(IdtAt(IDT, v)) =>
                /\ IdtAt(IDT, v).selector = cpu.cs
                /\ IdtAt(IDT, v).selector = main.code_selector
                /\ cpu.gdtr # None
                /\ ValidCode(K, IdtAt(IDT, v).selector)

\* The timer handler was entered through its gate after start-up.
C33_Witness ==
    /\ InitDone
    /\ hstack # <<>>
    /\ Top(K).vector = InterruptIndex_Timer
    /\ IdtAt(IDT, InterruptIndex_Timer).selector = W(8)
    /\ GDT[2].kind = "kernel_code"


(***************************************************************************)
(* gdt::init called again                                                  *)
(***************************************************************************)
\* A further call of gdt::init, made by the main context while
\* interrupts::init has not yet enabled interrupts, so that no interrupt is
\* in flight: the whole of the function, on the static GDT and TSS as the
\* first call left them.  append panics when the table is full.
GdtInitAgain ==
    /\ main.pc \in DOMAIN IdtWrites \cup {"remap_pic", "load_idt", "enable"}
    /\ MainAt(main.pc)
    /\ LET k1 == [K EXCEPT
                     !.TSS.interrupt_stack_table[DOUBLE_FAULT_IST_INDEX] =
                         stack_end(DF_STACK)]
           code == gdt_append(GDT, Descriptor_kernel_code_segment)
           tss == gdt_append(code.table, Descriptor_tss_segment)
       IN  /\ panicked' = (code.full \/ tss.full)
           /\ KernelSet(
                 IF code.full THEN [k1 EXCEPT !.console = @ \o panic]
                 ELSE IF tss.full
                 THEN [k1 EXCEPT !.GDT = code.table,
                                 !.main.code_selector = code.selector,
                                 !.console = @ \o panic]
                 ELSE [k1 EXCEPT
                          !.GDT = tss.table,
                          !.main.code_selector = code.selector,
                          !.main.tss_selector = tss.selector,
                          !.cpu.gdtr = Some([limit |-> W(Len(tss.table) * 8 - 1)]),
                          !.cpu.cs = code.selector,
                          !.cpu.tr = Some(tss.selector)])
    /\ UNCHANGED <<allocVars, mem, mapper, debug_assertions, op>>

NextGdt ==
    \/ GdtSetIst \/ GdtAppendCode \/ GdtAppendTss \/ GdtLoad \/ SetCs \/ LoadTss
    \/ IdtSetEntry \/ RemapPic \/ LoadIdt
    \/ GdtInitAgain

SpecGdt == Init /\ [][NextGdt]_vars

\* The descriptor a selector names in the table in GDTR, "none" outside it.
KindOf(sel) ==
    LET index == N(Shr(sel, 3))
    IN  IF /\ cpu.gdtr # None
           /\ index * 8 + 7 <= N(Unwrap(cpu.gdtr).limit)
           /\ index + 1 <= Len(GDT)
        THEN GDT[index + 1].kind ELSE "none"

\* C34: when gdt::init has been called a second time (the table then holds
\* the null descriptor and two code and two TSS descriptors, seven slots),
\* the call completed without a panic, the table in GDTR holds a kernel
\* code-segment descriptor and a TSS descriptor, CS names a code segment
\* and the task register a TSS of that table, the IST slot still holds the
\* top of the double-fault stack, and the selector of every present gate of
\* the IDT names a kernel code segment.
C34_SecondGdtInitSafe ==
    Len(GDT) = 7 =>
        /\ ~panicked
        /\ cpu.gdtr = Some([limit |-> W(55)])
        /\ \E i \in 1..Len(GDT) : GDT[i].kind = "kernel_code"
        /\ \E i \in 1..Len(GDT) : GDT[i].kind = "tss"
        /\ KindOf(cpu.cs) = "kernel_code"
        /\ cpu.tr # None
        /\ KindOf(Unwrap(cpu.tr)) = "tss"
        /\ TSS.interrupt_stack_table[DOUBLE_FAULT_IST_INDEX] = stack_end(DF_STACK)
        /\ \A v \in 0..(IDT_LEN - 1) :
              GatePresent(IdtAt(IDT, v)) =>
                  KindOf(IdtAt(IDT, v).selector) = "kernel_code"

\* The second call was made after the six gates were written with the
\* selector of the first call; CS now holds the selector of the second
\* code descriptor.
C34_Witness ==
    /\ Len(GDT) = 7
    /\ main.pc = "enable"
    /\ Cardinality({v \in 0..(IDT_LEN - 1) :
                       /\ GatePresent(IdtAt(IDT, v))
                       /\ IdtAt(IDT, v).selector = W(8)}) = 6
    /\ cpu.cs = W(32)
    /\ cpu.tr = Some(W(40))


(***************************************************************************)
(* The scancode queue on its own: push_scancode and pop_scancode           *)
(***************************************************************************)
MaxQueueCalls == 3

\* Scancodes handed to push_scancode: a key pressed and released.
QueueScancodes == {W(30), W(158)}

\* The queue after tail pops and tail + len pushes: the cells written so
\* far hold scancodes, head is tail + len modulo the capacity.
QueueAfter(tail, len) ==
    [buffer |-> [i \in {j % SCANCODE_QUEUE_CAPACITY : j \in 0..(tail + len - 1)}
                    |-> W(1 + (i % 3))],
     head |-> (tail + len) % SCANCODE_QUEUE_CAPACITY,
     tail |-> tail,
     len |-> len]

\* The queue is empty or two short of full, with its tail at the first or
\* at the last cell of the buffer.
InitQueue ==
    /\ AllocIdle
    /\ MapIdle
    /\ PicIdle
    /\ KernelBootButQueue
    /\ ShellIdle
    /\ DF_STACK = {}
    /\ boot_info = None
    /\ \E tail \in {0, SCANCODE_QUEUE_CAPACITY - 1},
          len \in {0, SCANCODE_QUEUE_CAPACITY - 2} :
          QUEUE = QueueAfter(tail, len)

\* keyboard::push_scancode(scancode), as the keyboard handler calls it: the
\* closure runs with interrupts disabled.
PushScancodeCall ==
    /\ op.n < MaxQueueCalls
    /\ \E scancode \in QueueScancodes :
          /\ QUEUE' = ScancodeQueue_push(QUEUE, scancode)
          /\ op' = [name |-> "push", n |-> op.n + 1, scancode |-> scancode,
                    value |-> None]
    /\ UNCHANGED <<allocVars, mem, mapper, panicked, debug_assertions, picVars,
                   cpu, GDT, TSS, IDT, DF_STACK, main, hstack,
                   TRIGGER_DF_ON_PF, console, serial, time, kbd, fired,
                   popped, boot_info,
                   WRITER, history>>

\* keyboard::pop_scancode(), as Shell::run calls it: the closure runs under
\* without_interrupts.
PopScancodeCall ==
    /\ op.n < MaxQueueCalls
    /\ LET r == ScancodeQueue_pop(QUEUE)
       IN  /\ QUEUE' = r.queue
           /\ popped' = IF r.value = None THEN popped
                        ELSE Append(popped, Unwrap(r.value))
           /\ op' = [name |-> "pop", n |-> op.n + 1, scancode |-> {},
                     value |-> r.value]
    /\ UNCHANGED <<allocVars, mem, mapper, panicked, debug_assertions, picVars,
                   cpu, GDT, TSS, IDT, DF_STACK, main, hstack,
                   TRIGGER_DF_ON_PF, console, serial, time, kbd, fired,
                   boot_info, WRITER, history>>

NextQueue == PushScancodeCall \/ PopScancodeCall

SpecQueue == InitQueue /\ [][NextQueue]_vars

\* The scancodes a queue holds, oldest first.
Contents(q) ==
    [i \in 1..q.len |->
        LET cell == (q.tail + i - 1) % SCANCODE_QUEUE_CAPACITY
        IN  IF cell \in DOMAIN q.buffer THEN q.buffer[cell] ELSE {}]

\* C35: in any interleaving of pushes and pops the queue is a first-in
\* first-out list of at most 256 scancodes: a push appends its scancode
\* behind the ones waiting, or leaves the queue unchanged when 256 are
\* waiting; a pop returns the oldest one and removes it alone, or returns
\* None and changes nothing when the queue is empty.
C35_QueueIsFifo ==
    [][/\ (op'.n = op.n + 1 /\ op'.name = "push") =>
             IF QUEUE.len = 256 THEN QUEUE' = QUEUE
             ELSE Contents(QUEUE') = Append(Contents(QUEUE), op'.scancode)
       /\ (op'.n = op.n + 1 /\ op'.name = "pop") =>
             IF Contents(QUEUE) = <<>>
             THEN op'.value = None /\ QUEUE' = QUEUE /\ popped' = popped
             ELSE /\ op'.value = Some(Head(Contents(QUEUE)))
                  /\ Contents(QUEUE') = Tail(Contents(QUEUE))
                  /\ popped' = Append(popped, Head(Contents(QUEUE)))
       /\ QUEUE'.len <= 256
       /\ QUEUE'.head \in 0..255
       /\ QUEUE'.tail \in 0..255
       /\ QUEUE'.head = (QUEUE'.tail + QUEUE'.len) % 256]_vars

\* Three pushes and no pop on the queue that was two short of full with
\* its tail at the last cell: the third push was dropped.
C35_Witness ==
    /\ op.name = "push"
    /\ op.n = 3
    /\ popped = <<>>
    /\ QUEUE.len = 256
    /\ QUEUE.tail = 255
    /\ QUEUE.head = 255


(***************************************************************************)
(* The shell loop with a timer that never stops                            *)
(***************************************************************************)
\* The PIT raises IRQ 0 again and again.
TimerKeepsFiring ==
    /\ 0 \notin pic.master.irr
    /\ ~cpu.reset
    /\ KernelSet([K EXCEPT !.pic = RaiseLine(@, 0)])
    /\ NoPaging

\* A step of the main context: start-up, then the loop of Shell::run.
MainStep ==
    \/ GdtSetIst \/ GdtAppendCode \/ GdtAppendTss \/ GdtLoad \/ SetCs \/ LoadTss
    \/ IdtSetEntry \/ RemapPic \/ LoadIdt \/ EnableInterrupts
    \/ InitPaging \/ SerialInit \/ InitPit \/ Bootstrap
    \/ ShellPop \/ ShellHlt

\* A step of a handler, or the delivery of a pending interrupt.
InterruptStep == HandlerStep \/ HandlerReturn \/ InterruptDelivery

NextShell == MainStep \/ InterruptStep \/ TimerKeepsFiring \/ KeyPressed

\* The main context can take a step.
MainRuns ==
    /\ hstack = <<>>
    /\ ~cpu.halted
    /\ ~cpu.reset
    /\ ~panicked

\* The handler on top of the stack can take a step, or the processor can
\* take a pending interrupt.
InterruptStepPossible ==
    \/ /\ hstack # <<>>
       /\ ~cpu.halted
       /\ ~cpu.reset
       /\ \/ Top(K).at = Len(Body(Top(K).handler)) + 1
          \/ /\ Top(K).at <= Len(Body(Top(K).handler))
             /\ Body(Top(K).handler)[Top(K).at].op # "spin_loop"
    \/ /\ cpu.intr
       /\ ~cpu.reset
       /\ MasterRequests(pic) # {}

\* The main context runs whenever the interrupt handlers leave it time to,
\* which a timer period far longer than a handler guarantees: strong
\* fairness of MainStep, MainRuns being its enabling condition.
MainIsScheduled == <>[](~MainRuns) \/ []<><<MainStep>>_vars

\* The processor executes the handler that runs and takes a pending
\* interrupt when the flag allows it: weak fairness of InterruptStep,
\* InterruptStepPossible being its enabling condition.
InterruptsAreServed == []<>(~InterruptStepPossible) \/ []<><<InterruptStep>>_vars

\* The scheduling above, and a timer that keeps raising its line.
SpecShell ==
    /\ Init
    /\ [][NextShell]_vars
    /\ MainIsScheduled
    /\ InterruptsAreServed
    /\ WF_vars(TimerKeepsFiring)

\* C36: every scancode the keyboard handler has pushed is eventually popped
\* by Shell::run, whenever the shell was reached (start-up did not end in a
\* panic): the first one pushed, and the second.
C36_PushedIsPopped ==
    \A n \in 1..MaxKeys :
        (QUEUE.len + Len(popped) >= n) ~> (Len(popped) >= n \/ panicked)

\* The scancode arrived between the empty pop and hlt: the processor is
\* halted in the shell's loop with a scancode in the queue.
C36_Witness ==
    /\ cpu.halted
    /\ hstack = <<>>
    /\ main.pc = "shell.pop"
    /\ QUEUE.len = 1
    /\ popped = <<>>
    /\ ~panicked


\* C37: every frame an allocator returned is 4-KiB aligned and lies, whole,
\* inside what may be handed out: [addr, addr + 4096) inside one usable
\* region of the memory map for the boot-info allocator, and below end for
\* the bump allocator (whose frames start at align_up(start) and increase).
C37_FramesInsideRegion ==
    \A i \in 1..Len(returned) :
        IsSome(returned[i]) =>
            LET frame == Unwrap(returned[i])
                frame_end == Add(frame, FrameSizeWord)
            IN  /\ BitAnd(frame, OffsetMask) = {}
                /\ IF alloc.kind = "BootInfo"
                   THEN \E r \in 1..Len(alloc.memory_map) :
                           /\ alloc.memory_map[r].usable
                           /\ Ge(frame, start_addr(alloc.memory_map[r]))
                           /\ Ge(end_addr(alloc.memory_map[r]), frame_end)
                   ELSE Ge(alloc.end, frame_end)


(***************************************************************************)
(* The VGA writer on its own                                               *)
(***************************************************************************)
\* The bytes handed to write_byte: a newline and a letter.
VgaBytes == {NEWLINE, 97}

InitVga ==
    /\ AllocIdle
    /\ PicIdle
    /\ CpuIdle
    /\ mem = <<>>
    /\ mapper = None
    /\ panicked = FALSE
    /\ debug_assertions = FALSE
    /\ op = [name |-> "none", byte |-> 0, cells |-> {}, position |-> 0,
             stopped |-> FALSE]

VgaOthers ==
    UNCHANGED <<allocVars, mem, mapper, panicked, debug_assertions, picVars,
                cpu, GDT, TSS, IDT, DF_STACK, main, hstack, TRIGGER_DF_ON_PF,
                console, serial, time, QUEUE, kbd, fired, popped, boot_info,
                history>>

\* vga_buffer::write_byte(byte, color_code), and each byte of a print! or
\* println!: in the main context, or in a handler that took over.
WriteByteCall ==
    /\ \E byte \in VgaBytes :
          LET r == Writer_write_byte(WRITER, byte)
          IN  /\ WRITER' = r.writer
              /\ op' = [op EXCEPT !.name = "write_byte", !.byte = byte,
                                  !.cells = r.cells,
                                  !.position = cursor_position(r.writer)]
    /\ VgaOthers

\* vga_buffer::backspace(color_code), called by the shell
BackspaceCall ==
    /\ ~op.stopped
    /\ LET r == Writer_backspace(WRITER)
       IN  /\ WRITER' = r.writer
           /\ op' = [op EXCEPT !.name = "backspace", !.byte = 0,
                               !.cells = r.cells,
                               !.position = IF r.cells = {} THEN @
                                            ELSE cursor_position(r.writer)]
    /\ VgaOthers

\* vga_buffer::clear_screen(), called by the shell
ClearScreenCall ==
    /\ ~op.stopped
    /\ LET r == clear_screen(WRITER)
       IN  /\ WRITER' = r.writer
           /\ op' = [op EXCEPT !.name = "clear_screen", !.byte = 0,
                               !.cells = r.cells,
                               !.position = cursor_position(r.writer)]
    /\ VgaOthers

\* A fatal exception is delivered while the main context is inside one of
\* the three calls (GlobalWriter::with does not disable interrupts): the
\* handler finds the writer between two assignments, prints, and never
\* returns to the interrupted call.
FatalHandlerTakesOver ==
    /\ ~op.stopped
    /\ \E r \in {Writer_write_byte(WRITER, byte) : byte \in VgaBytes}
                   \cup {Writer_backspace(WRITER), clear_screen(WRITER)} :
          \E w \in r.mid :
             /\ WRITER' = w
             /\ op' = [op EXCEPT !.name = "interrupted", !.byte = 0,
                                 !.cells = {}, !.stopped = TRUE]
    /\ VgaOthers

NextVga == WriteByteCall \/ BackspaceCall \/ ClearScreenCall \/ FatalHandlerTakesOver

SpecVga == InitVga /\ [][NextVga]_vars

\* C38: after any sequence of write_byte, backspace and clear_screen calls,
\* a handler's printing included, the cursor is inside 0..24 x 0..80, and
\* every cell the last call wrote is a cell of the 25 x 80 buffer.
C38_CursorInsideBuffer ==
    /\ WRITER.row \in 0..(BUFFER_HEIGHT - 1)
    /\ WRITER.column \in 0..BUFFER_WIDTH
    /\ \A cell \in op.cells :
          /\ cell[1] \in 0..(BUFFER_HEIGHT - 1)
          /\ cell[2] \in 0..(BUFFER_WIDTH - 1)

\* A letter written with the cursor past the last column of the last row:
\* the screen scrolled and the letter went to row 23.
C38_Witness ==
    /\ op.name = "write_byte"
    /\ op.byte = 97
    /\ <<0, 0>> \in op.cells
    /\ WRITER = [row |-> BUFFER_HEIGHT - 2, column |-> 2]


(***************************************************************************)
(* The input history on its own                                            *)
(***************************************************************************)
MaxHistoryCalls == 3

\* The lines handed to push: the empty one, two letters, and a line that
\* fills the shell's input buffer (INPUT_BUFFER_LEN = ENTRY_CAPACITY bytes).
HistoryLines == {<<>>, <<97>>, <<98>>, [i \in 1..ENTRY_CAPACITY |-> 99]}

\* The history after head + len accepted pushes that alternate two lines.
HistoryAfter(head, len) ==
    [entries |-> [i \in 0..(MAX_ENTRIES - 1) |->
                     IF (i - head) % MAX_ENTRIES < len
                     THEN <<100 + (((i - head) % MAX_ENTRIES) % 2)>>
                     ELSE <<>>],
     len |-> len, head |-> head, cursor |-> len]

\* The history is empty, one short of full, or full with its oldest entry
\* in the first or in the last cell.
InitHistory ==
    /\ AllocIdle
    /\ MapIdle
    /\ PicIdle
    /\ KernelBootButQueue
    /\ QUEUE = ScancodeQueue_new
    /\ DF_STACK = {}
    /\ boot_info = None
    /\ WRITER = Writer_new
    /\ \E shape \in {<<0, 0>>, <<0, MAX_ENTRIES - 1>>, <<0, MAX_ENTRIES>>,
                     <<MAX_ENTRIES - 1, MAX_ENTRIES>>} :
          history = HistoryAfter(shape[1], shape[2])

HistoryOthers ==
    UNCHANGED <<allocVars, mem, mapper, panicked, debug_assertions, picVars,
                cpu, GDT, TSS, IDT, DF_STACK, main, hstack, TRIGGER_DF_ON_PF,
                console, serial, time, QUEUE, kbd, fired, popped, boot_info,
                WRITER>>

\* history.push(line)
HistoryPushCall ==
    /\ op.n < MaxHistoryCalls
    /\ \E line \in HistoryLines :
          /\ history' = InputHistory_push(history, line)
          /\ op' = [name |-> "push", n |-> op.n + 1, line |-> line, value |-> None]
    /\ HistoryOthers

\* history.previous()
HistoryPreviousCall ==
    /\ op.n < MaxHistoryCalls
    /\ LET r == InputHistory_previous(history)
       IN  /\ history' = r.history
           /\ op' = [name |-> "previous", n |-> op.n + 1, line |-> <<>>,
                     value |-> r.value]
    /\ HistoryOthers

\* history.next()
HistoryNextCall ==
    /\ op.n < MaxHistoryCalls
    /\ LET r == InputHistory_next(history)
       IN  /\ history' = r.history
           /\ op' = [name |-> "next", n |-> op.n + 1, line |-> <<>>,
                     value |-> r.value]
    /\ HistoryOthers

\* history.reset_navigation()
HistoryResetCall ==
    /\ op.n < MaxHistoryCalls
    /\ history' = reset_navigation(history)
    /\ op' = [name |-> "reset_navigation", n |-> op.n + 1, line |-> <<>>,
              value |-> None]
    /\ HistoryOthers

NextHistory ==
    HistoryPushCall \/ HistoryPreviousCall \/ HistoryNextCall \/ HistoryResetCall

SpecHistory == InitHistory /\ [][NextHistory]_vars

\* The stored lines, oldest first.
Stored(h) == [j \in 1..h.len |-> h.entries[(h.head + j - 1) % MAX_ENTRIES]]

\* C39: every call leaves len <= 32, head < 32 and cursor <= len. A push is
\* accepted when its line is not empty and differs from the latest stored
\* line; an accepted push appends its line to the stored ones, dropping the
\* oldest when 32 are stored and keeping the order of the others; any other
\* call leaves the stored lines as they are.
C39_HistoryKeepsLatestLines ==
    [][\A before \in {Stored(history)} : \A after \in {Stored(history')} :
          /\ history'.len <= MAX_ENTRIES
          /\ history'.head < MAX_ENTRIES
          /\ history'.cursor <= history'.len
          /\ IF /\ op'.name = "push"
                /\ op'.line # <<>>
                /\ (before = <<>> \/ before[Len(before)] # op'.line)
             THEN after = Append(IF Len(before) = MAX_ENTRIES THEN Tail(before)
                                 ELSE before, op'.line)
             ELSE after = before]_vars

\* A line pushed onto a full history whose oldest entry was in the last
\* cell: head wrapped around to the first cell.
C39_Witness ==
    /\ op.name = "push"
    /\ op.n = 1
    /\ history.len = MAX_ENTRIES
    /\ history.head = 0
    /\ history.entries[MAX_ENTRIES - 1] = op.line
    /\ Len(op.line) = ENTRY_CAPACITY






























====
